---------------------------- MODULE Spec2Model ----------------------------
(***************************************************************************)
(* A model of the IRC protocol engine of velour (package irc):             *)
(*   - the message codec (Msg.RawString, ParseMsg, splitString),           *)
(*   - the session (dial, register, readMsgs, writeMsgs, muxErrors) with   *)
(*     its consumer (handleConnection).                                    *)
(* Strings are sequences of one-character strings, so that the codec is    *)
(* computed character by character as the Go code computes it.             *)
(***************************************************************************)
EXTENDS Integers, Sequences, FiniteSets, TLC

(***************************************************************************)
(* Program constants.                                                      *)
(***************************************************************************)
\* const MaxMsgLength = 512
MaxMsgLength == 512

\* const MsgMarker = "\r\n"
MsgMarker == <<"\r", "\n">>

(***************************************************************************)
(* Bounds of the model.                                                    *)
(***************************************************************************)
\* longest line handed to ParseMsg by the codec specification
MaxLineLen == 5

\* longest argument list of a synthesized message
MaxArgs == 2

\* how far past the 510-byte limit the padded messages reach
MaxExcess == 2

\* most pieces (payload byte, marker, LF, CR, NUL) of a short byte stream
MaxPieces == 5

\* most pieces that follow the payload of a long line in a byte stream
MaxTail == 3

(***************************************************************************)
(* String helpers (package strings).                                       *)
(***************************************************************************)
\* strings.IndexRune: 1-based index of the first c in s, 0 when absent
IndexRune(s, c) ==
    IF \E i \in 1..Len(s) : s[i] = c
    THEN CHOOSE i \in 1..Len(s) : s[i] = c /\ \A j \in 1..(i-1) : s[j] # c
    ELSE 0

\* a variant of strings.TrimRight(s, "\n") that removes one line feed only
TrimRightOneLF(s) ==
    IF Len(s) > 0 /\ s[Len(s)] = "\n"
    THEN SubSeq(s, 1, Len(s) - 1)
    ELSE s

\* strings.TrimRight(s, "\n")
RECURSIVE TrimRightLF(_)
TrimRightLF(s) ==
    IF Len(s) > 0 /\ s[Len(s)] = "\n"
    THEN TrimRightLF(SubSeq(s, 1, Len(s) - 1))
    ELSE s

\* s[i:] of Go for a 0-based offset i
From(s, i) == SubSeq(s, i + 1, Len(s))

\* n copies of character c
Rep(c, n) == [i \in 1..n |-> c]

(***************************************************************************)
(* Msg and Msg.RawString.                                                  *)
(***************************************************************************)
\* the zero value of Msg
ZeroMsg ==
    [Raw |-> <<>>, Origin |-> <<>>, User |-> <<>>, Host |-> <<>>,
     Cmd |-> <<>>, Args |-> <<>>]

\* a variant of the loop over m.Args that writes the last argument like
\* the others, with no colon
RECURSIVE ArgsStringNoTrailing(_, _)
ArgsStringNoTrailing(args, i) ==
    IF i > Len(args) THEN <<>>
    ELSE <<" ">> \o args[i] \o ArgsStringNoTrailing(args, i + 1)

\* a variant of the loop over m.Args that writes the colon before the last
\* argument only when the argument needs it: when it is empty, starts with
\* a colon or holds a space
RECURSIVE ArgsStringColonWhenNeeded(_, _)
ArgsStringColonWhenNeeded(args, i) ==
    IF i > Len(args) THEN <<>>
    ELSE (IF /\ i = Len(args)
             /\ \/ args[i] = <<>>
                \/ args[i][1] = ":"
                \/ \E j \in 1..Len(args[i]) : args[i][j] = " "
          THEN <<" ", ":">> \o args[i] ELSE <<" ">> \o args[i])
         \o ArgsStringColonWhenNeeded(args, i + 1)

\* the loop over m.Args of RawString: the text appended after the command
RECURSIVE ArgsString(_, _)
ArgsString(args, i) ==
    IF i > Len(args) THEN <<>>
    ELSE (IF i = Len(args) THEN <<" ", ":">> \o args[i] ELSE <<" ">> \o args[i])
         \o ArgsString(args, i + 1)

\* the candidate string of RawString, before the length check at label out
RawCandidate(m) ==
    IF m.Raw # <<>> THEN m.Raw
    ELSE (IF m.Origin # <<>>
          THEN <<":">> \o m.Origin
               \o (IF m.User # <<>> THEN <<"!">> \o m.User \o <<"@">> \o m.Host
                   ELSE <<>>)
               \o <<" ">>
          ELSE <<>>)
         \o m.Cmd \o ArgsString(m.Args, 1)

\* a variant of RawString that compares with MaxMsgLength alone, without
\* leaving room for MsgMarker
RawStringNoMarker(m) ==
    LET raw == RawCandidate(m) IN
    IF Len(raw) > MaxMsgLength
    THEN [str |-> <<>>, err |-> "MsgTooLong", Msg |-> raw,
          NTrunc |-> Len(raw) - MaxMsgLength]
    ELSE [str |-> TrimRightLF(raw), err |-> "nil", Msg |-> <<>>, NTrunc |-> 0]

\* Msg.RawString: (string, error); err is "nil" or "MsgTooLong"
RawString(m) ==
    LET raw == RawCandidate(m) IN
    IF Len(raw) > MaxMsgLength - Len(MsgMarker)
    THEN [str |-> <<>>, err |-> "MsgTooLong", Msg |-> raw,
          NTrunc |-> Len(raw) - (MaxMsgLength - Len(MsgMarker))]
    ELSE [str |-> TrimRightLF(raw), err |-> "nil", Msg |-> <<>>, NTrunc |-> 0]

(***************************************************************************)
(* splitString and ParseMsg.                                               *)
(***************************************************************************)
\* the loop "for ; i < len(s) && s[i] == ' '; i++" (i is a 0-based offset)
RECURSIVE SkipSpaces(_, _)
SkipSpaces(s, i) ==
    IF i < Len(s) /\ s[i + 1] = " " THEN SkipSpaces(s, i + 1) ELSE i

\* a variant of splitString that leaves the delimiter at the head of the
\* second string
splitStringKeepDelim(s, delim) ==
    LET i == IndexRune(s, delim) - 1 IN
    IF i < 0 THEN <<s, <<>>>>
    ELSE IF delim # " " THEN <<SubSeq(s, 1, i), From(s, i)>>
    ELSE <<SubSeq(s, 1, i), From(s, SkipSpaces(s, i))>>

\* splitString(s, delim): <<before, after>>
splitString(s, delim) ==
    LET i == IndexRune(s, delim) - 1 IN
    IF i < 0 THEN <<s, <<>>>>
    ELSE IF delim # " " THEN <<SubSeq(s, 1, i), From(s, i + 1)>>
    ELSE <<SubSeq(s, 1, i), From(s, SkipSpaces(s, i))>>

\* a variant of the argument loop without the case "data[0] == ':'"
RECURSIVE ParseArgsNoTrailing(_)
ParseArgsNoTrailing(data) ==
    IF Len(data) = 0 THEN <<>>
    ELSE LET p == splitString(data, " ") IN <<p[1]>> \o ParseArgsNoTrailing(p[2])

\* the argument loop of ParseMsg: "for len(data) > 0"
RECURSIVE ParseArgs(_)
ParseArgs(data) ==
    IF Len(data) = 0 THEN <<>>
    ELSE IF data[1] = ":" THEN <<From(data, 1)>>
    ELSE LET p == splitString(data, " ") IN <<p[1]>> \o ParseArgs(p[2])

\* a variant of ParseMsg that does not keep data as Raw
ParseMsgNoRaw(data) ==
    IF Len(data) = 0
    THEN [panic |-> TRUE, err |-> "nil", msg |-> ZeroMsg]
    ELSE
      LET hasPrefix == data[1] = ":"
          pd     == splitString(From(data, 1), " ")
          op     == splitString(pd[1], "!")
          uh     == splitString(op[2], "@")
          rest   == IF hasPrefix THEN pd[2] ELSE data
          cd     == splitString(rest, " ")
      IN [panic |-> FALSE, err |-> "nil",
          msg |-> [Raw    |-> <<>>,
                   Origin |-> IF hasPrefix THEN op[1] ELSE <<>>,
                   User   |-> IF hasPrefix THEN uh[1] ELSE <<>>,
                   Host   |-> IF hasPrefix THEN uh[2] ELSE <<>>,
                   Cmd    |-> cd[1],
                   Args   |-> ParseArgs(cd[2])]]

\* ParseMsg(data): panic is TRUE when the Go code panics (data[0] on an
\* empty string is an index out of range); err is the returned error.
ParseMsg(data) ==
    IF Len(data) = 0
    THEN [panic |-> TRUE, err |-> "nil", msg |-> ZeroMsg]
    ELSE
      LET hasPrefix == data[1] = ":"
          pd     == splitString(From(data, 1), " ")
          op     == splitString(pd[1], "!")
          uh     == splitString(op[2], "@")
          rest   == IF hasPrefix THEN pd[2] ELSE data
          cd     == splitString(rest, " ")
      IN [panic |-> FALSE, err |-> "nil",
          msg |-> [Raw    |-> data,
                   Origin |-> IF hasPrefix THEN op[1] ELSE <<>>,
                   User   |-> IF hasPrefix THEN uh[1] ELSE <<>>,
                   Host   |-> IF hasPrefix THEN uh[2] ELSE <<>>,
                   Cmd    |-> cd[1],
                   Args   |-> ParseArgs(cd[2])]]


(***************************************************************************)
(* The codec on its own: an input (a line for ParseMsg or a message for    *)
(* RawString) and the result of the calls made on it.                      *)
(***************************************************************************)
VARIABLES
    cin,    \* the input: [kind, line, msg]
    cout    \* the result: [op, raw, parsed]

codecVars == <<cin, cout>>

\* results not computed (yet)
NoRaw == [str |-> <<>>, err |-> "nil", Msg |-> <<>>, NTrunc |-> 0]
NoParsed == [panic |-> FALSE, err |-> "nil", msg |-> ZeroMsg]
NoInput == [kind |-> "none", line |-> <<>>, msg |-> ZeroMsg]
NoOutput == [op |-> "none", raw |-> NoRaw, parsed |-> NoParsed]

(***************************************************************************)
(* readMsgData and junk: the framer.  The byte stream of a bufio.Reader is *)
(* a sequence of bytes followed by io.EOF; a call consumes a prefix of it. *)
(***************************************************************************)
\* the byte '\000'
NUL == "NUL"

\* the result of readMsgData: the returned string, the error ("nil", "EOF",
\* "unexpected end of file", "unexpected null", "unexpected carrage return"
\* or "MsgTooLong" with its fields Msg and NTrunc) and the bytes consumed
FrameResult(data, err, long, ntrunc, pos) ==
    [data |-> data, err |-> err, Msg |-> long, NTrunc |-> ntrunc, pos |-> pos]

\* a variant of junk that counts the line feed of the marker it stops at
RECURSIVE junkLoopCountsMarker(_, _, _, _)
junkLoopCountsMarker(s, i, last, n) ==
    IF i >= Len(s) THEN [n |-> n, pos |-> i]
    ELSE IF last = MsgMarker[1] /\ s[i + 1] = MsgMarker[2]
         THEN [n |-> n + 1, pos |-> i + 1]
         ELSE junkLoopCountsMarker(s, i + 1, s[i + 1], n + 1)

\* junk, started after i bytes of s have been consumed: n is the number of
\* bytes counted so far and last the previous byte; the result is the
\* returned count and the bytes consumed (the error is dropped by the caller)
RECURSIVE junkLoop(_, _, _, _)
junkLoop(s, i, last, n) ==
    IF i >= Len(s) THEN [n |-> n, pos |-> i]
    ELSE IF last = MsgMarker[1] /\ s[i + 1] = MsgMarker[2]
         THEN [n |-> (n + 1) - 1, pos |-> i + 1]
         ELSE junkLoop(s, i + 1, s[i + 1], n + 1)

\* a variant of junk that discards nothing
junkNothing(s, i) == [n |-> 0, pos |-> i]

\* junk(in)
junk(s, i) == junkLoop(s, i, NUL, 0)

\* a variant of RunLen that accumulates one byte more than there is room for
RunLenOneMore(s, i, room) ==
    LET stops == {j \in (i + 1)..Len(s) : s[j] \in {NUL, "\n", "\r"}}
        end   == IF stops = {} THEN Len(s)
                 ELSE (CHOOSE j \in stops : \A k \in stops : j <= k) - 1
    IN IF end - i <= room + 1 THEN end - i ELSE room + 1

\* a variant of RunLen that takes a NUL for a payload byte
RunLenThroughNUL(s, i, room) ==
    LET stops == {j \in (i + 1)..Len(s) : s[j] \in {"\n", "\r"}}
        end   == IF stops = {} THEN Len(s)
                 ELSE (CHOOSE j \in stops : \A k \in stops : j <= k) - 1
    IN IF end - i <= room THEN end - i ELSE room

\* a variant of RunLen that takes a carriage return for a payload byte
RunLenThroughCR(s, i, room) ==
    LET stops == {j \in (i + 1)..Len(s) : s[j] \in {NUL, "\n"}}
        end   == IF stops = {} THEN Len(s)
                 ELSE (CHOOSE j \in stops : \A k \in stops : j <= k) - 1
    IN IF end - i <= room THEN end - i ELSE room

\* a variant of RunLen that takes a line feed for a payload byte
RunLenThroughLF(s, i, room) ==
    LET stops == {j \in (i + 1)..Len(s) : s[j] \in {NUL, "\r"}}
        end   == IF stops = {} THEN Len(s)
                 ELSE (CHOOSE j \in stops : \A k \in stops : j <= k) - 1
    IN IF end - i <= room THEN end - i ELSE room

\* the number of times the default case "msg = append(msg, c)" is taken in
\* a row after i bytes of s have been consumed, with room for room bytes:
\* the bytes up to the next NUL, line feed or carriage return, at most room
RunLen(s, i, room) ==
    LET stops == {j \in (i + 1)..Len(s) : s[j] \in {NUL, "\n", "\r"}}
        end   == IF stops = {} THEN Len(s)
                 ELSE (CHOOSE j \in stops : \A k \in stops : j <= k) - 1
    IN IF end - i <= room THEN end - i ELSE room

\* the loop of readMsgData after i bytes of s have been consumed, with msg
\* accumulated; a run of default cases is taken in one step
RECURSIVE readMsgDataLoop(_, _, _)
readMsgDataLoop(s, i, msg) ==
    IF i >= Len(s)
    THEN IF Len(msg) > 0
         THEN FrameResult(<<>>, "unexpected end of file", <<>>, 0, i)
         ELSE FrameResult(<<>>, "EOF", <<>>, 0, i)
    ELSE LET c == s[i + 1] IN
      IF c = NUL THEN FrameResult(<<>>, "unexpected null", <<>>, 0, i + 1)
      ELSE IF c = "\n" THEN readMsgDataLoop(s, i + 1, msg)
      ELSE IF c = "\r"
      THEN IF i + 1 >= Len(s)
           THEN FrameResult(<<>>, "unexpected end of file", <<>>, 0, i + 1)
           ELSE IF s[i + 2] # "\n"
           THEN FrameResult(<<>>, "unexpected carrage return", <<>>, 0, i + 2)
           ELSE IF Len(msg) = 0 THEN readMsgDataLoop(s, i + 2, msg)
           ELSE FrameResult(msg, "nil", <<>>, 0, i + 2)
      ELSE IF Len(msg) >= MaxMsgLength - 2
      THEN LET j == junk(s, i + 1)
           IN FrameResult(<<>>, "MsgTooLong", SubSeq(msg, 1, Len(msg) - 1),
                          j.n + 1, j.pos)
      ELSE LET k == RunLen(s, i, (MaxMsgLength - 2) - Len(msg))
           IN readMsgDataLoop(s, i + k, msg \o SubSeq(s, i + 1, i + k))

\* a variant of readMsgData whose case "err != nil" comes before its case
\* "err == io.EOF && len(msg) > 0"
readMsgDataErrFirst(s) ==
    LET r == readMsgDataLoop(s, 0, <<>>) IN
    IF r.err = "unexpected end of file" /\ s[Len(s)] # "\r"
    THEN [r EXCEPT !.err = "EOF"]
    ELSE r

\* a variant of readMsgData whose first case is "err == io.EOF", whatever
\* the length of msg
readMsgDataAnyEOF(s) ==
    LET r == readMsgDataLoop(s, 0, <<>>) IN
    IF r.err = "EOF" THEN [r EXCEPT !.err = "unexpected end of file"] ELSE r

\* a variant of readMsgData that returns the empty line when the reader
\* holds a marker with nothing before it, where readMsgData reads on
readMsgDataEmptyLine(s) ==
    IF Len(s) >= 2 /\ SubSeq(s, 1, 2) = MsgMarker
    THEN FrameResult(<<>>, "nil", <<>>, 0, 2)
    ELSE readMsgDataLoop(s, 0, <<>>)

\* readMsgData(in) for a reader holding the bytes s
readMsgData(s) == readMsgDataLoop(s, 0, <<>>)

\* readMsg(in): the message and the error it returns, and the bytes consumed
readMsg(s) ==
    LET r == readMsgData(s) IN
    IF r.err = "MsgTooLong"
    THEN [msg |-> ParseMsg(r.Msg).msg, err |-> r.err, frame |-> r]
    ELSE IF r.err # "nil"
    THEN [msg |-> ZeroMsg, err |-> r.err, frame |-> r]
    ELSE [msg |-> ParseMsg(r.data).msg, err |-> "nil", frame |-> r]

(***************************************************************************)
(* The read loop on its own: readMsgs over the bytes the server sends,     *)
(* with a receiver always ready on its two channels.                       *)
(***************************************************************************)
VARIABLES
    fstream,   \* the bytes the connection delivers before io.EOF
    fpos,      \* the number of bytes the reader has consumed
    fprev,     \* the number of bytes consumed before the last readMsg call
    fres,      \* the result of the last readMsg call
    fpc,       \* readMsgs: position ("read", "sendErr", "sendMsg", "done")
    flog       \* what readMsgs has sent on errs and ms, in order

framerVars == <<fstream, fpos, fprev, fres, fpc, flog>>

\* no readMsg call made (yet)
NoFrame == [msg |-> ZeroMsg, err |-> "nil", frame |-> FrameResult(<<>>, "nil", <<>>, 0, 0)]

\* the read loop is not part of the behaviour
FramerIdle ==
    /\ fstream = <<>> /\ fpos = 0 /\ fprev = 0
    /\ fres = NoFrame /\ fpc = "idle" /\ flog = <<>>

(***************************************************************************)
(* win.send on its own: the text typed in a chat window, cut into PRIVMSG  *)
(* messages that are submitted to client.Out.                              *)
(***************************************************************************)
VARIABLES
    sendTarget,  \* w.target
    sendText,    \* t when the loop of send is entered
    sendT,       \* t
    sendM,       \* m
    sendPc,      \* send: position ("start", "loop", "sendOut", "panic", "done")
    outbox       \* the messages send has submitted to client.Out, in order

senderVars == <<sendTarget, sendText, sendT, sendM, sendPc, outbox>>

\* win.send is not part of the behaviour
SenderIdle ==
    /\ sendTarget = <<>> /\ sendText = <<>> /\ sendT = <<>>
    /\ sendM = ZeroMsg /\ sendPc = "idle" /\ outbox = <<>>

(***************************************************************************)
(* The session: dial starts readMsgs, writeMsgs and muxErrors and then     *)
(* runs register; on success the caller goes on to handleConnection.       *)
(* All five channels are unbuffered: a send and its receive are one joint  *)
(* step of the two goroutines.                                             *)
(***************************************************************************)
VARIABLES
    pass,        \* the password handed to dial (<<>> when none)
    connOpen,    \* c.conn has not been closed yet
    closeCalls,  \* number of c.conn.Close() calls made by each loop
    chClosed,    \* which channels have been closed
    rpc, rmsg, rerr,   \* readMsgs: position, m and err of readMsg
    wpc, wmsg, werr,   \* writeMsgs: position, m and err
    mpc, merr, left,   \* muxErrors: position, err in hand, left
    cpc, cmsg,         \* the caller: position, message it is sending
    Server,            \* c.Server
    regErr,            \* the error returned by register
    wire,              \* the lines written to the connection, in order
    reported,          \* errors the loops have tried to send, in order
    delivered,         \* errors received from c.Errors, in order
    readsLeft,         \* lines the server may still send
    sendsLeft          \* messages the user may still submit

sessionVars ==
    <<pass, connOpen, closeCalls, chClosed, rpc, rmsg, rerr, wpc, wmsg, werr,
      mpc, merr, left, cpc, cmsg, Server, regErr, wire, reported, delivered,
      readsLeft, sendsLeft>>

vars == <<sessionVars, codecVars, framerVars, senderVars>>

\* number of lines the server sends at most
MaxReads == 1

\* number of messages the user submits at most after registration
MaxSends == 1

Str1(a) == <<a>>
Str3(a, b, c) == <<a, b, c>>
Str4(a, b, c, d) == <<a, b, c, d>>

\* command names and reply numerics used by register and handleMsg
PASS == Str4("P", "A", "S", "S")
NICK == Str4("N", "I", "C", "K")
USER == Str4("U", "S", "E", "R")
PING == Str4("P", "I", "N", "G")
PONG == Str4("P", "O", "N", "G")
JOIN == Str4("J", "O", "I", "N")
PRIVMSG == <<"P", "R", "I", "V", "M", "S", "G">>
RPL_WELCOME == Str3("0", "0", "1")
ERR_NONICKNAMEGIVEN == Str3("4", "3", "1")
ERR_ERRONEUSNICKNAME == Str3("4", "3", "2")
ERR_NICKNAMEINUSE == Str3("4", "3", "3")
ERR_NICKCOLLISION == Str3("4", "3", "6")
ERR_UNAVAILRESOURCE == Str3("4", "3", "7")
ERR_NEEDMOREPARAMS == Str3("4", "6", "1")
ERR_ALREADYREGISTRED == Str3("4", "6", "2")
ERR_RESTRICTED == Str3("4", "8", "4")

\* the numerics of the first case of register's switch
FailureNumerics ==
    {ERR_NONICKNAMEGIVEN, ERR_ERRONEUSNICKNAME, ERR_NICKNAMEINUSE,
     ERR_NICKCOLLISION, ERR_UNAVAILRESOURCE, ERR_RESTRICTED,
     ERR_NEEDMOREPARAMS, ERR_ALREADYREGISTRED}

\* CmdNames[cmd], for the numerics register looks up
CmdNames(cmd) ==
    CASE cmd = ERR_NONICKNAMEGIVEN  -> "ERR_NONICKNAMEGIVEN"
      [] cmd = ERR_ERRONEUSNICKNAME -> "ERR_ERRONEUSNICKNAME"
      [] cmd = ERR_NICKNAMEINUSE    -> "ERR_NICKNAMEINUSE"
      [] cmd = ERR_NICKCOLLISION    -> "ERR_NICKCOLLISION"
      [] cmd = ERR_UNAVAILRESOURCE  -> "ERR_UNAVAILRESOURCE"
      [] cmd = ERR_RESTRICTED       -> "ERR_RESTRICTED"
      [] cmd = ERR_NEEDMOREPARAMS   -> "ERR_NEEDMOREPARAMS"
      [] cmd = ERR_ALREADYREGISTRED -> "ERR_ALREADYREGISTRED"
      [] OTHER -> ""

\* Msg{Cmd: cmd, Args: args}
MkMsg(cmd, args) == [ZeroMsg EXCEPT !.Cmd = cmd, !.Args = args]

\* the nick and full name handed to dial
nick == Str1("n")
fullname == Str3("f", " ", "n")

\* the lines the server may send: a welcome reply, each failure numeric
\* (with a trailing argument, with middle arguments only, or with no
\* argument at all), a PING and a NOTICE
ServerLines ==
    { <<":", "s", " ", "0", "0", "1", " ", "n", " ", ":", "h", "i">>,
      <<":", "s", " ", "4", "3", "3", " ", "n", " ", ":", "i", "n", " ", "u", "s", "e">>,
      <<"4", "3", "1">>,
      <<":", "s", " ", "4", "3", "2", " ", "n", " ", ":", "b", "a", "d">>,
      <<":", "s", " ", "4", "3", "6", " ", "n", " ", "k">>,
      <<"4", "3", "7">>,
      <<":", "s", " ", "4", "8", "4", " ", ":">>,
      <<"4", "6", "1", " ", "U", " ", ":", "f", "e", "w">>,
      <<":", "s", " ", "4", "6", "2">>,
      <<"P", "I", "N", "G", " ", ":", "x", "y">>,
      <<":", "s", " ", "N", "O", "T", "I", "C", "E", " ", "n", " ", ":", "y", "o">> }

\* a line of 511 payload bytes, and the 509 bytes of it that readMsgData
\* keeps as the text of its MsgTooLong error
LongLine == <<"P", "I", "N", "G", " ", ":">> \o Rep("a", MaxMsgLength - 7)
TruncText == SubSeq(LongLine, 1, MaxMsgLength - 3)

\* what the user may submit: a short PRIVMSG and one whose line is too long
UserMsgs ==
    { MkMsg(PRIVMSG, <<Str1("#"), Str1("a")>>),
      MkMsg(PRIVMSG, <<Str1("#"), Rep("a", MaxMsgLength)>>) }

\* error values: the loop that detected it, its number within that loop,
\* and its kind (MsgTooLong, io.EOF, unexpected(...), a transport error)
Err(src, n, kind) == [src |-> src, n |-> n, kind |-> kind]
NoErr == Err("none", 0, "nil")
NoMsg == ZeroMsg

\* the error register returns: errors.New(text), or errors.New(CmdNames[..])
\* when name is set; kind "nil" is no error (yet)
RegErr(kind, text, name) == [kind |-> kind, text |-> text, name |-> name]
NoRegErr == RegErr("nil", <<>>, "")

ErrCount(src) == Cardinality({i \in 1..Len(reported) : reported[i].src = src})

Channels == {"in", "out", "errs", "rerrs", "werrs"}

\* dial: the state when register starts, for password p
SessionInit(p) ==
    /\ pass = p
    /\ connOpen = TRUE
    /\ closeCalls = [l \in {"r", "w"} |-> 0]
    /\ chClosed = [c \in Channels |-> FALSE]
    /\ rpc = "read" /\ rmsg = NoMsg /\ rerr = NoErr
    /\ wpc = "recv" /\ wmsg = NoMsg /\ werr = NoErr
    /\ mpc = "select" /\ merr = NoErr /\ left = 2
    /\ cpc = (IF pass # <<>> THEN "regPass" ELSE "regNick")
    /\ cmsg = NoMsg
    /\ Server = <<>>
    /\ regErr = NoRegErr
    /\ wire = <<>>
    /\ reported = <<>>
    /\ delivered = <<>>
    /\ readsLeft = MaxReads
    /\ sendsLeft = MaxSends

Init ==
    /\ \E p \in {<<>>, Str1("p")} : SessionInit(p)
    /\ cin = NoInput
    /\ cout = NoOutput
    /\ FramerIdle
    /\ SenderIdle


readerVars == <<rpc, rmsg, rerr>>
writerVars == <<wpc, wmsg, werr>>
muxVars == <<mpc, merr, left>>
callerVars == <<cpc, cmsg, Server, regErr>>
connVars == <<connOpen, closeCalls>>

(***************************************************************************)
(* The caller's side of its channel operations.                            *)
(***************************************************************************)
\* the positions at which the caller is blocked in "c.Out <- m"
SendingPcs == {"regPass", "regNick", "regUser", "regPong", "sendJoin", "sendOut"}

\* a variant of the sends of register in which USER goes out before NICK
CallerMsgUserFirst ==
    CASE cpc = "regPass" -> MkMsg(PASS, <<pass>>)
      [] cpc = "regNick" -> MkMsg(USER, <<nick, Str1("0"), Str1("*"), fullname>>)
      [] cpc = "regUser" -> MkMsg(NICK, <<nick>>)
      [] OTHER -> cmsg

\* the message of the send the caller is blocked in
CallerMsg ==
    CASE cpc = "regPass" -> MkMsg(PASS, <<pass>>)
      [] cpc = "regNick" -> MkMsg(NICK, <<nick>>)
      [] cpc = "regUser" -> MkMsg(USER, <<nick, Str1("0"), Str1("*"), fullname>>)
      [] OTHER -> cmsg

\* where the caller goes on once its send has been taken
AfterSend ==
    CASE cpc = "regPass" -> "regNick"
      [] cpc = "regNick" -> "regUser"
      [] cpc = "regUser" -> "regRange"
      [] cpc = "regPong" -> "regRange"
      [] cpc = "sendJoin" -> "connected"
      [] OTHER -> "select"

\* the caller's half of "c.Out <- m" completing
CallerSent ==
    /\ cpc \in SendingPcs
    /\ cpc' = AfterSend
    /\ cmsg' = NoMsg
    /\ UNCHANGED <<Server, regErr>>

\* a variant of register's switch that fails with the reply's first argument
RegisterSwitchFirstArg(msg) ==
    IF msg.Cmd \in FailureNumerics
    THEN /\ cpc' = "failed"
         /\ regErr' = (IF Len(msg.Args) > 0
                       THEN RegErr("reply", msg.Args[1], "")
                       ELSE RegErr("reply", <<>>, CmdNames(msg.Cmd)))
         /\ UNCHANGED <<cmsg, Server>>
    ELSE IF msg.Cmd = RPL_WELCOME
    THEN /\ Server' = msg.Origin
         /\ cpc' = "connected"
         /\ UNCHANGED <<cmsg, regErr>>
    ELSE IF msg.Cmd = PING
    THEN /\ cpc' = "regPong"
         /\ cmsg' = MkMsg(PONG, msg.Args)
         /\ UNCHANGED <<Server, regErr>>
    ELSE UNCHANGED callerVars

\* a variant of register's switch that does not record the origin of the
\* welcome reply
RegisterSwitchNoServer(msg) ==
    IF msg.Cmd \in FailureNumerics
    THEN /\ cpc' = "failed"
         /\ regErr' = (IF Len(msg.Args) > 0
                       THEN RegErr("reply", msg.Args[Len(msg.Args)], "")
                       ELSE RegErr("reply", <<>>, CmdNames(msg.Cmd)))
         /\ UNCHANGED <<cmsg, Server>>
    ELSE IF msg.Cmd = RPL_WELCOME
    THEN /\ cpc' = "connected"
         /\ UNCHANGED <<cmsg, regErr, Server>>
    ELSE IF msg.Cmd = PING
    THEN /\ cpc' = "regPong"
         /\ cmsg' = MkMsg(PONG, msg.Args)
         /\ UNCHANGED <<Server, regErr>>
    ELSE UNCHANGED callerVars

\* a variant of register's switch that answers a PING with a PONG without
\* arguments
RegisterSwitchBarePong(msg) ==
    IF msg.Cmd \in FailureNumerics
    THEN /\ cpc' = "failed"
         /\ regErr' = (IF Len(msg.Args) > 0
                       THEN RegErr("reply", msg.Args[Len(msg.Args)], "")
                       ELSE RegErr("reply", <<>>, CmdNames(msg.Cmd)))
         /\ UNCHANGED <<cmsg, Server>>
    ELSE IF msg.Cmd = RPL_WELCOME
    THEN /\ Server' = msg.Origin
         /\ cpc' = "connected"
         /\ UNCHANGED <<cmsg, regErr>>
    ELSE IF msg.Cmd = PING
    THEN /\ cpc' = "regPong"
         /\ cmsg' = MkMsg(PONG, <<>>)
         /\ UNCHANGED <<Server, regErr>>
    ELSE UNCHANGED callerVars

\* a variant of the switch of register with a default case that gives up
RegisterSwitchDefaultFails(msg) ==
    IF msg.Cmd \in FailureNumerics
    THEN /\ cpc' = "failed"
         /\ regErr' = (IF Len(msg.Args) > 0
                       THEN RegErr("reply", msg.Args[Len(msg.Args)], "")
                       ELSE RegErr("reply", <<>>, CmdNames(msg.Cmd)))
         /\ UNCHANGED <<cmsg, Server>>
    ELSE IF msg.Cmd = RPL_WELCOME
    THEN /\ Server' = msg.Origin
         /\ cpc' = "connected"
         /\ UNCHANGED <<cmsg, regErr>>
    ELSE IF msg.Cmd = PING
    THEN /\ cpc' = "regPong"
         /\ cmsg' = MkMsg(PONG, msg.Args)
         /\ UNCHANGED <<Server, regErr>>
    ELSE /\ cpc' = "failed"
         /\ regErr' = RegErr("reply", <<>>, "unexpected message")
         /\ UNCHANGED <<cmsg, Server>>

\* a variant of the switch of register that, on a failure numeric, goes on
\* to close c.Out as handleConnection does when it returns
RegisterSwitchTearDown(msg) ==
    IF msg.Cmd \in FailureNumerics
    THEN /\ cpc' = "closeOut"
         /\ regErr' = (IF Len(msg.Args) > 0
                       THEN RegErr("reply", msg.Args[Len(msg.Args)], "")
                       ELSE RegErr("reply", <<>>, CmdNames(msg.Cmd)))
         /\ UNCHANGED <<cmsg, Server>>
    ELSE IF msg.Cmd = RPL_WELCOME
    THEN /\ Server' = msg.Origin
         /\ cpc' = "connected"
         /\ UNCHANGED <<cmsg, regErr>>
    ELSE IF msg.Cmd = PING
    THEN /\ cpc' = "regPong"
         /\ cmsg' = MkMsg(PONG, msg.Args)
         /\ UNCHANGED <<Server, regErr>>
    ELSE UNCHANGED callerVars

\* the body of register's "for msg := range c.In" for one message
RegisterSwitch(msg) ==
    IF msg.Cmd \in FailureNumerics
    THEN /\ cpc' = "failed"
         /\ regErr' = (IF Len(msg.Args) > 0
                       THEN RegErr("reply", msg.Args[Len(msg.Args)], "")
                       ELSE RegErr("reply", <<>>, CmdNames(msg.Cmd)))
         /\ UNCHANGED <<cmsg, Server>>
    ELSE IF msg.Cmd = RPL_WELCOME
    THEN /\ Server' = msg.Origin
         /\ cpc' = "connected"
         /\ UNCHANGED <<cmsg, regErr>>
    ELSE IF msg.Cmd = PING
    THEN /\ cpc' = "regPong"
         /\ cmsg' = MkMsg(PONG, msg.Args)
         /\ UNCHANGED <<Server, regErr>>
    ELSE UNCHANGED callerVars

\* handleConnection's "case msg, ok := <-client.In" with ok: handleMsg(msg),
\* which answers a PING with a PONG and sends nothing otherwise
HandleMsg(msg) ==
    IF msg.Cmd = PING
    THEN /\ cpc' = "sendOut"
         /\ cmsg' = MkMsg(PONG, <<>>)
         /\ UNCHANGED <<Server, regErr>>
    ELSE UNCHANGED callerVars

\* the caller's half of receiving msg from c.In
CallerGotMsg(msg) ==
    /\ cpc \in {"regRange", "select"}
    /\ IF cpc = "regRange" THEN RegisterSwitch(msg) ELSE HandleMsg(msg)

\* a variant of the Errors case of handleConnection that returns on io.EOF
\* as on any error other than MsgTooLong
CallerGotErrEOFFatal(err) ==
    /\ cpc \in {"select", "drain"}
    /\ cpc' = (IF cpc = "select" /\ err.kind # "MsgTooLong"
               THEN "closeOut" ELSE cpc)
    /\ UNCHANGED <<cmsg, Server, regErr>>

\* a variant of the receive from c.Errors in which the deferred function
\* of handleConnection does not take the errors that are still to come
CallerGotErrLoopOnly(err) ==
    /\ cpc = "select"
    /\ cpc' = (IF err.kind \notin {"MsgTooLong", "EOF"} THEN "closeOut" ELSE cpc)
    /\ UNCHANGED <<cmsg, Server, regErr>>

\* handleConnection's "case err, ok := <-client.Errors" with ok, and the
\* deferred "for err := range client.Errors"
CallerGotErr(err) ==
    /\ cpc \in {"select", "drain"}
    /\ cpc' = (IF cpc = "select" /\ err.kind \notin {"MsgTooLong", "EOF"}
               THEN "closeOut" ELSE cpc)
    /\ UNCHANGED <<cmsg, Server, regErr>>

(***************************************************************************)
(* readMsgs.                                                               *)
(***************************************************************************)
\* readMsg returns a message and no error
ReadLine ==
    /\ rpc = "read" /\ readsLeft > 0
    /\ \E line \in ServerLines :
          rmsg' = ParseMsg(line).msg
    /\ rerr' = NoErr
    /\ rpc' = "sendMsg"
    /\ readsLeft' = readsLeft - 1
    /\ UNCHANGED <<codecVars, framerVars, senderVars, pass, connVars, chClosed, writerVars, muxVars, callerVars,
                   wire, reported, delivered, sendsLeft>>

\* readMsg returns the message parsed from the truncated text, and MsgTooLong
ReadTooLong ==
    /\ rpc = "read" /\ readsLeft > 0
    /\ rmsg' = ParseMsg(TruncText).msg
    /\ rerr' = Err("r", ErrCount("r") + 1, "MsgTooLong")
    /\ reported' = Append(reported, rerr')
    /\ rpc' = "sendErr"
    /\ readsLeft' = readsLeft - 1
    /\ UNCHANGED <<codecVars, framerVars, senderVars, pass, connVars, chClosed, writerVars, muxVars, callerVars,
                   wire, delivered, sendsLeft>>

\* readMsg returns Msg{} and another error
ReadError(kind) ==
    /\ rpc = "read"
    /\ rmsg' = ZeroMsg
    /\ rerr' = Err("r", ErrCount("r") + 1, kind)
    /\ reported' = Append(reported, rerr')
    /\ rpc' = "sendErr"
    /\ UNCHANGED <<codecVars, framerVars, senderVars, pass, connVars, chClosed, writerVars, muxVars, callerVars,
                   wire, delivered, readsLeft, sendsLeft>>

\* the stream ends (io.EOF), is malformed (unexpected ...), or breaks
ReadFail ==
    /\ connOpen
    /\ \E kind \in {"EOF", "unexpected", "io"} : ReadError(kind)

\* a read from the connection after c.conn.Close()
ReadClosed ==
    /\ ~connOpen
    /\ ReadError("io")

\* "errs <- err" of readMsgs, received by muxErrors' "case err, ok := <-rerrs"
ReaderReport ==
    /\ rpc = "sendErr" /\ mpc = "select"
    /\ merr' = rerr
    /\ mpc' = "fwd"
    /\ rpc' = (IF rerr.kind = "MsgTooLong" THEN "sendMsg" ELSE "closeErrs")
    /\ UNCHANGED <<codecVars, framerVars, senderVars, pass, connVars, chClosed, rmsg, rerr, writerVars, left,
                   callerVars, wire, reported, delivered,
                   readsLeft, sendsLeft>>

\* "ms <- m" of readMsgs, received by register or by handleConnection
ReaderDeliver ==
    /\ rpc = "sendMsg"
    /\ CallerGotMsg(rmsg)
    /\ rpc' = "read"
    /\ UNCHANGED <<codecVars, framerVars, senderVars, pass, connVars, chClosed, rmsg, rerr, writerVars, muxVars,
                   wire, reported, delivered, readsLeft, sendsLeft>>

\* close(errs)
ReaderCloseErrs ==
    /\ rpc = "closeErrs"
    /\ chClosed' = [chClosed EXCEPT !["rerrs"] = TRUE]
    /\ rpc' = "closeMs"
    /\ UNCHANGED <<codecVars, framerVars, senderVars, pass, connVars, rmsg, rerr, writerVars, muxVars, callerVars,
                   wire, reported, delivered, readsLeft,
                   sendsLeft>>

\* close(ms)
ReaderCloseMs ==
    /\ rpc = "closeMs"
    /\ chClosed' = [chClosed EXCEPT !["in"] = TRUE]
    /\ rpc' = "closeConn"
    /\ UNCHANGED <<codecVars, framerVars, senderVars, pass, connVars, rmsg, rerr, writerVars, muxVars, callerVars,
                   wire, reported, delivered, readsLeft,
                   sendsLeft>>

\* a variant of c.conn.Close() that only the first caller performs
ConnCloseIfOpen(l) ==
    /\ connOpen' = FALSE
    /\ closeCalls' = [closeCalls EXCEPT ![l] = IF connOpen THEN @ + 1 ELSE @]

\* c.conn.Close() by loop l
ConnClose(l) ==
    /\ connOpen' = FALSE
    /\ closeCalls' = [closeCalls EXCEPT ![l] = @ + 1]

\* c.conn.Close() of readMsgs
ReaderCloseConn ==
    /\ rpc = "closeConn"
    /\ ConnClose("r")
    /\ rpc' = "done"
    /\ UNCHANGED <<codecVars, framerVars, senderVars, pass, chClosed, rmsg, rerr, writerVars, muxVars, callerVars,
                   wire, reported, delivered, readsLeft,
                   sendsLeft>>

(***************************************************************************)
(* writeMsgs.                                                              *)
(***************************************************************************)
\* "for m := range ms" takes the message the caller is sending
WriterRecv ==
    /\ wpc = "recv"
    /\ wmsg' = CallerMsg
    /\ CallerSent
    /\ wpc' = "got"
    /\ UNCHANGED <<codecVars, framerVars, senderVars, pass, connVars, chClosed, readerVars, werr, muxVars, wire,
                   reported, delivered, readsLeft, sendsLeft>>

\* m.RawString() fails: the error is to be reported, the message skipped
WriteTooLong ==
    /\ wpc = "got"
    /\ RawString(wmsg).err # "nil"
    /\ werr' = Err("w", ErrCount("w") + 1, RawString(wmsg).err)
    /\ reported' = Append(reported, werr')
    /\ wpc' = "sendErr"
    /\ UNCHANGED <<codecVars, framerVars, senderVars, pass, connVars, chClosed, readerVars, wmsg, muxVars,
                   callerVars, wire, delivered, readsLeft,
                   sendsLeft>>

\* a variant of the write that puts the line on the connection twice
WriteOKTwice ==
    /\ wpc = "got"
    /\ RawString(wmsg).err = "nil"
    /\ connOpen
    /\ wire' = wire \o << RawString(wmsg).str \o MsgMarker,
                          RawString(wmsg).str \o MsgMarker >>
    /\ wpc' = "recv"
    /\ wmsg' = NoMsg
    /\ UNCHANGED <<codecVars, framerVars, senderVars, pass, connVars, chClosed, readerVars, werr, muxVars,
                   callerVars, reported, delivered, readsLeft,
                   sendsLeft>>

\* out.WriteString(str + "\r\n") and out.Flush() succeed
WriteOK ==
    /\ wpc = "got"
    /\ RawString(wmsg).err = "nil"
    /\ connOpen
    /\ wire' = Append(wire, RawString(wmsg).str \o MsgMarker)
    /\ wpc' = "recv"
    /\ wmsg' = NoMsg
    /\ UNCHANGED <<codecVars, framerVars, senderVars, pass, connVars, chClosed, readerVars, werr, muxVars,
                   callerVars, reported, delivered, readsLeft,
                   sendsLeft>>

\* the write or the flush fails: the connection is closed or broken, or
\* the write deadline passed
WriteFail ==
    /\ wpc = "got"
    /\ RawString(wmsg).err = "nil"
    /\ werr' = Err("w", ErrCount("w") + 1, "io")
    /\ reported' = Append(reported, werr')
    /\ wpc' = "sendErr"
    /\ UNCHANGED <<codecVars, framerVars, senderVars, pass, connVars, chClosed, readerVars, wmsg, muxVars,
                   callerVars, wire, delivered, readsLeft,
                   sendsLeft>>

\* "errs <- err" of writeMsgs, received by muxErrors' "case err, ok := <-werrs":
\* continue after MsgTooLong, break after a write error
WriterReport ==
    /\ wpc = "sendErr" /\ mpc = "select"
    /\ merr' = werr
    /\ mpc' = "fwd"
    /\ wpc' = (IF werr.kind = "MsgTooLong" THEN "recv" ELSE "closeErrs")
    /\ wmsg' = NoMsg
    /\ UNCHANGED <<codecVars, framerVars, senderVars, pass, connVars, chClosed, readerVars, werr, left,
                   callerVars, wire, reported, delivered,
                   readsLeft, sendsLeft>>

\* "for m := range ms" ends because ms (c.Out) has been closed
WriterOutClosed ==
    /\ wpc = "recv"
    /\ chClosed["out"]
    /\ wpc' = "closeErrs"
    /\ UNCHANGED <<codecVars, framerVars, senderVars, pass, connVars, chClosed, readerVars, wmsg, werr, muxVars,
                   callerVars, wire, reported, delivered,
                   readsLeft, sendsLeft>>

\* close(errs)
WriterCloseErrs ==
    /\ wpc = "closeErrs"
    /\ chClosed' = [chClosed EXCEPT !["werrs"] = TRUE]
    /\ wpc' = "closeConn"
    /\ UNCHANGED <<codecVars, framerVars, senderVars, pass, connVars, readerVars, wmsg, werr, muxVars, callerVars,
                   wire, reported, delivered, readsLeft,
                   sendsLeft>>

\* c.conn.Close() of writeMsgs
WriterCloseConn ==
    /\ wpc = "closeConn"
    /\ ConnClose("w")
    /\ wpc' = "drain"
    /\ UNCHANGED <<codecVars, framerVars, senderVars, pass, chClosed, readerVars, wmsg, werr, muxVars, callerVars,
                   wire, reported, delivered, readsLeft,
                   sendsLeft>>

\* "for _ = range ms {}" takes and discards the message the caller is sending
WriterDrain ==
    /\ wpc = "drain"
    /\ CallerSent
    /\ UNCHANGED <<codecVars, framerVars, senderVars, pass, connVars, chClosed, readerVars, writerVars, muxVars,
                   wire, reported, delivered, readsLeft,
                   sendsLeft>>

\* "for _ = range ms {}" ends because ms has been closed
WriterDrainEnd ==
    /\ wpc = "drain"
    /\ chClosed["out"]
    /\ wpc' = "done"
    /\ UNCHANGED <<codecVars, framerVars, senderVars, pass, connVars, chClosed, readerVars, wmsg, werr, muxVars,
                   callerVars, wire, reported, delivered,
                   readsLeft, sendsLeft>>

(***************************************************************************)
(* muxErrors.                                                              *)
(***************************************************************************)
\* a variant of the closed-channel cases of muxErrors that closes c.Errors
\* and goes round the loop again instead of returning
MuxClosedNoReturn(ch) ==
    /\ mpc = "select"
    /\ chClosed[ch]
    /\ left' = left - 1
    /\ IF left' = 0
       THEN chClosed' = [chClosed EXCEPT !["errs"] = TRUE]
       ELSE UNCHANGED chClosed
    /\ UNCHANGED <<codecVars, framerVars, senderVars, pass, connVars, readerVars, writerVars,
                   mpc, merr, callerVars, wire, reported, delivered, readsLeft, sendsLeft>>

\* "case err, ok := <-ch" with ok false, for ch one of rerrs and werrs: a
\* receive from a closed channel is ready whenever the select is entered
MuxClosed(ch) ==
    /\ mpc = "select"
    /\ chClosed[ch]
    /\ left' = left - 1
    /\ IF left' = 0
       THEN /\ chClosed' = [chClosed EXCEPT !["errs"] = TRUE]
            /\ mpc' = "done"
       ELSE UNCHANGED <<chClosed, mpc>>
    /\ UNCHANGED <<codecVars, framerVars, senderVars, pass, connVars, readerVars, writerVars, merr, callerVars,
                   wire, reported, delivered, readsLeft,
                   sendsLeft>>

MuxReadClosed == MuxClosed("rerrs")

MuxWriteClosed == MuxClosed("werrs")

\* "errs <- err" of muxErrors, received by the caller from c.Errors
MuxForward ==
    /\ mpc = "fwd"
    /\ CallerGotErr(merr)
    /\ delivered' = Append(delivered, merr)
    /\ mpc' = "select"
    /\ merr' = NoErr
    /\ UNCHANGED <<codecVars, framerVars, senderVars, pass, connVars, chClosed, readerVars, writerVars, left,
                   wire, reported, readsLeft, sendsLeft>>

(***************************************************************************)
(* The caller: register, then main and handleConnection.                   *)
(***************************************************************************)
\* register's "for msg := range c.In" ends because c.In has been closed
RegisterInClosed ==
    /\ cpc = "regRange"
    /\ chClosed["in"]
    /\ cpc' = "failed"
    /\ regErr' = RegErr("eof", <<>>, "unexpected end of file")
    /\ UNCHANGED <<codecVars, framerVars, senderVars, pass, connVars, chClosed, readerVars, writerVars, muxVars,
                   cmsg, Server, wire, reported, delivered,
                   readsLeft, sendsLeft>>

\* main sends a JOIN per channel window, handleConnection one for *join
ConsumerJoin ==
    /\ cpc = "connected" /\ sendsLeft > 0
    /\ cpc' = "sendJoin"
    /\ cmsg' = MkMsg(JOIN, <<Str1("#")>>)
    /\ sendsLeft' = sendsLeft - 1
    /\ UNCHANGED <<codecVars, framerVars, senderVars, pass, connVars, chClosed, readerVars, writerVars, muxVars,
                   Server, regErr, wire, reported, delivered,
                   readsLeft>>

\* handleConnection enters its select loop
ConsumerLoop ==
    /\ cpc = "connected"
    /\ cpc' = "select"
    /\ UNCHANGED <<codecVars, framerVars, senderVars, pass, connVars, chClosed, readerVars, writerVars, muxVars,
                   cmsg, Server, regErr, wire, reported, delivered, readsLeft, sendsLeft>>

\* "case ev := <-winEvents" with an event that sends a message, or
\* "case <-t.C", which sends a PING
ConsumerSubmit ==
    /\ cpc = "select" /\ sendsLeft > 0
    /\ \E m \in UserMsgs \cup {MkMsg(PING, <<Server>>)} : cmsg' = m
    /\ cpc' = "sendOut"
    /\ sendsLeft' = sendsLeft - 1
    /\ UNCHANGED <<codecVars, framerVars, senderVars, pass, connVars, chClosed, readerVars, writerVars, muxVars,
                   Server, regErr, wire, reported, delivered,
                   readsLeft>>

\* "case msg, ok := <-client.In" with ok false: return
ConsumerInClosed ==
    /\ cpc = "select"
    /\ chClosed["in"]
    /\ cpc' = "closeOut"
    /\ UNCHANGED <<codecVars, framerVars, senderVars, pass, connVars, chClosed, readerVars, writerVars, muxVars,
                   cmsg, Server, regErr, wire, reported, delivered, readsLeft, sendsLeft>>

\* the deferred close(client.Out)
ConsumerCloseOut ==
    /\ cpc = "closeOut"
    /\ chClosed' = [chClosed EXCEPT !["out"] = TRUE]
    /\ cpc' = "drain"
    /\ UNCHANGED <<codecVars, framerVars, senderVars, pass, connVars, readerVars, writerVars, muxVars, cmsg,
                   Server, regErr, wire, reported, delivered,
                   readsLeft, sendsLeft>>

\* the deferred "for err := range client.Errors" ends: c.Errors is closed
ConsumerDrainEnd ==
    /\ cpc = "drain"
    /\ chClosed["errs"]
    /\ cpc' = "done"
    /\ UNCHANGED <<codecVars, framerVars, senderVars, pass, connVars, chClosed, readerVars, writerVars, muxVars,
                   cmsg, Server, regErr, wire, reported, delivered, readsLeft, sendsLeft>>

Next ==
    \/ ReadLine \/ ReadTooLong \/ ReadFail \/ ReadClosed
    \/ ReaderReport \/ ReaderDeliver
    \/ ReaderCloseErrs \/ ReaderCloseMs \/ ReaderCloseConn
    \/ WriterRecv \/ WriteTooLong \/ WriteOK \/ WriteFail \/ WriterReport
    \/ WriterOutClosed \/ WriterCloseErrs \/ WriterCloseConn
    \/ WriterDrain \/ WriterDrainEnd
    \/ MuxReadClosed \/ MuxWriteClosed \/ MuxForward
    \/ RegisterInClosed
    \/ ConsumerJoin \/ ConsumerLoop \/ ConsumerSubmit \/ ConsumerInClosed
    \/ ConsumerCloseOut \/ ConsumerDrainEnd

Spec == Init /\ [][Next]_vars

(***************************************************************************)
(* The session once dial has returned without error, talking to a server   *)
(* that sends nothing after its welcome reply: the stream may still end or *)
(* break, and the user submits messages in handleConnection.               *)
(***************************************************************************)
\* number of messages the user submits at most to the established session
MaxLateSends == 3

\* the welcome reply register has received
WelcomeLine == <<":", "s", " ", "0", "0", "1", " ", "n", " ", ":", "h", "i">>

\* dial has returned: NICK and USER are written, the welcome reply has been
\* received, and the three loops are where they wait
ConnectedInit ==
    /\ pass = <<>>
    /\ connOpen = TRUE
    /\ closeCalls = [l \in {"r", "w"} |-> 0]
    /\ chClosed = [c \in Channels |-> FALSE]
    /\ rpc = "read" /\ rmsg = ParseMsg(WelcomeLine).msg /\ rerr = NoErr
    /\ wpc = "recv" /\ wmsg = NoMsg /\ werr = NoErr
    /\ mpc = "select" /\ merr = NoErr /\ left = 2
    /\ cpc = "connected"
    /\ cmsg = NoMsg
    /\ Server = ParseMsg(WelcomeLine).msg.Origin
    /\ regErr = NoRegErr
    /\ wire = << RawString(MkMsg(NICK, <<nick>>)).str \o MsgMarker,
                 RawString(MkMsg(USER, <<nick, Str1("0"), Str1("*"), fullname>>)).str
                     \o MsgMarker >>
    /\ reported = <<>>
    /\ delivered = <<>>
    /\ readsLeft = 0
    /\ sendsLeft = MaxLateSends
    /\ cin = NoInput
    /\ cout = NoOutput
    /\ FramerIdle
    /\ SenderIdle

ConnectedNext ==
    \/ ReadFail \/ ReadClosed \/ ReaderReport
    \/ ReaderCloseErrs \/ ReaderCloseMs \/ ReaderCloseConn
    \/ WriterRecv \/ WriteTooLong \/ WriteOK \/ WriteFail \/ WriterReport
    \/ WriterOutClosed \/ WriterCloseErrs \/ WriterCloseConn
    \/ WriterDrain \/ WriterDrainEnd
    \/ MuxReadClosed \/ MuxWriteClosed \/ MuxForward
    \/ ConsumerJoin \/ ConsumerLoop \/ ConsumerSubmit \/ ConsumerInClosed
    \/ ConsumerCloseOut \/ ConsumerDrainEnd

ConnectedSpec == ConnectedInit /\ [][ConnectedNext]_vars

(***************************************************************************)
(* The established session with a server that still sends: the state in    *)
(* which dial returns nil, followed by handleConnection, with at most       *)
(* MaxReads lines from the server and MaxSends messages from the user.      *)
(***************************************************************************)
LiveInit ==
    /\ pass = <<>>
    /\ connOpen = TRUE
    /\ closeCalls = [l \in {"r", "w"} |-> 0]
    /\ chClosed = [c \in Channels |-> FALSE]
    /\ rpc = "read" /\ rmsg = ParseMsg(WelcomeLine).msg /\ rerr = NoErr
    /\ wpc = "recv" /\ wmsg = NoMsg /\ werr = NoErr
    /\ mpc = "select" /\ merr = NoErr /\ left = 2
    /\ cpc = "connected"
    /\ cmsg = NoMsg
    /\ Server = ParseMsg(WelcomeLine).msg.Origin
    /\ regErr = NoRegErr
    /\ wire = << RawString(MkMsg(NICK, <<nick>>)).str \o MsgMarker,
                 RawString(MkMsg(USER, <<nick, Str1("0"), Str1("*"), fullname>>)).str
                     \o MsgMarker >>
    /\ reported = <<>>
    /\ delivered = <<>>
    /\ readsLeft = MaxReads
    /\ sendsLeft = MaxSends
    /\ cin = NoInput
    /\ cout = NoOutput
    /\ FramerIdle
    /\ SenderIdle

LiveNext == ConnectedNext \/ ReadLine \/ ReadTooLong \/ ReaderDeliver

LiveSpec == LiveInit /\ [][LiveNext]_vars

(***************************************************************************)
(* The codec specification: ParseMsg and RawString applied to every line   *)
(* and every message of a bounded set.                                     *)
(***************************************************************************)
\* all strings over alphabet cs of length at most n
RECURSIVE Strs(_, _)
Strs(cs, n) ==
    IF n = 0 THEN {<<>>}
    ELSE LET shorter == Strs(cs, n - 1)
         IN shorter \cup {Append(s, c) : s \in shorter, c \in cs}

\* all sequences of at most n elements of set S
RECURSIVE Seqs(_, _)
Seqs(S, n) ==
    IF n = 0 THEN {<<>>}
    ELSE LET shorter == Seqs(S, n - 1)
         IN shorter \cup {Append(s, x) : s \in shorter, x \in S}

\* the lines ParseMsg is applied to
LineChars == {"a", " ", ":", "!", "@"}
Lines == Strs(LineChars, MaxLineLen)

\* the fields of the synthesized messages: in and out of the wire grammar
ArgStrs ==
    { <<>>, <<"a">>, <<" ">>, <<"a", " ", "b">>, <<":", "a">>, <<"a", "\n">> }
CmdStrs == { <<>>, <<"C">>, <<":", "C">>, <<"C", " ">>, <<"0", "0", "1">> }
OriginStrs == { <<>>, <<"o">>, <<"o", "!">>, <<"o", " ">> }
UserStrs == { <<>>, <<"u">>, <<"u", "@">> }
HostStrs == { <<>>, <<"h">> }

\* Msg values with Raw unset
SmallMsgs ==
    { [Raw |-> <<>>, Origin |-> o, User |-> u, Host |-> h, Cmd |-> c, Args |-> as] :
        o \in OriginStrs, u \in UserStrs, h \in HostStrs, c \in CmdStrs,
        as \in Seqs(ArgStrs, MaxArgs) }

\* Msg values with Raw set (the other fields are then ignored by RawString)
RawMsgs ==
    { [ZeroMsg EXCEPT !.Raw = r, !.Cmd = c] :
        r \in {<<"a">>, <<"a", "\n">>, <<"\n">>, <<"C", " ", ":", "x", "\n", "\n">>},
        c \in {<<>>, <<"C">>} }
    \cup { [Raw |-> r, Origin |-> <<"o">>, User |-> u, Host |-> <<"h">>,
           Cmd |-> <<"D">>, Args |-> as] :
             r \in {<<"a", "\n", "b">>, <<"C", " ", ":", "x", "\n", "\n">>},
             u \in {<<>>, <<"u">>},
             as \in {<<>>, << <<"a">>, <<"y", "\n">> >>} }

\* the candidate lengths around the limit of MaxMsgLength - len(MsgMarker)
EdgeLens ==
    (MaxMsgLength - Len(MsgMarker) - MaxExcess) ..
    (MaxMsgLength - Len(MsgMarker) + MaxExcess)

\* messages whose candidate string has a length in EdgeLens: built from
\* the fields, with Raw set, and with Raw ending in line feeds
EdgeMsgs ==
    { [ZeroMsg EXCEPT !.Origin = <<"o">>, !.User = <<"u">>, !.Host = <<"h">>,
                      !.Cmd = <<"C">>,
                      !.Args = <<<<"#">>, Rep("a", n - 12)>>] : n \in EdgeLens }
    \cup { [ZeroMsg EXCEPT !.Raw = Rep("a", n)] : n \in EdgeLens }
    \cup { [ZeroMsg EXCEPT !.Raw = Rep("a", n - 2) \o <<"\n", "\n">>] : n \in EdgeLens }

Msgs == SmallMsgs \cup RawMsgs \cup EdgeMsgs

\* the lines of TestReadMsgOK
\* the line ":e!foo@bar.com JOIN #test54321"
ScenarioFullPrefix ==
    <<":", "e", "!", "f", "o", "o", "@", "b", "a", "r", ".", "c", "o",
      "m", " ", "J", "O", "I", "N", " ", "#", "t", "e", "s", "t", "5",
      "4", "3", "2", "1">>

\* the line ":e JOIN #test54321"
ScenarioOriginOnly ==
    <<":", "e", " ", "J", "O", "I", "N", " ", "#", "t", "e", "s", "t",
      "5", "4", "3", "2", "1">>

\* the line "JOIN #test54321"
ScenarioNoPrefix ==
    <<"J", "O", "I", "N", " ", "#", "t", "e", "s", "t", "5", "4", "3",
      "2", "1">>

\* the line "JOIN #test54321 :foo bar"
ScenarioTrailing ==
    <<"J", "O", "I", "N", " ", "#", "t", "e", "s", "t", "5", "4", "3",
      "2", "1", " ", ":", "f", "o", "o", " ", "b", "a", "r">>

\* the line "JOIN #test54321 ::foo bar"
ScenarioTrailingColon ==
    <<"J", "O", "I", "N", " ", "#", "t", "e", "s", "t", "5", "4", "3",
      "2", "1", " ", ":", ":", "f", "o", "o", " ", "b", "a", "r">>

\* the line "JOIN    #test54321    foo       bar   "
ScenarioSpaces ==
    <<"J", "O", "I", "N", " ", " ", " ", " ", "#", "t", "e", "s", "t",
      "5", "4", "3", "2", "1", " ", " ", " ", " ", "f", "o", "o", " ",
      " ", " ", " ", " ", " ", " ", "b", "a", "r", " ", " ", " ">>

\* the line "JOIN :"
ScenarioBareColon ==
    <<"J", "O", "I", "N", " ", ":">>

ScenarioLines ==
    { ScenarioFullPrefix, ScenarioOriginOnly, ScenarioNoPrefix, ScenarioTrailing,
      ScenarioTrailingColon, ScenarioSpaces, ScenarioBareColon }

\* lines around the limit of MaxMsgLength - len(MsgMarker) bytes, and lines
\* with a line feed inside and at the end
EdgeLines ==
    { Rep("a", n) : n \in EdgeLens }
    \cup { Rep("a", n - 1) \o <<"\n">> : n \in EdgeLens }
    \cup { <<"a", "\n">>, <<"a", "\n", "b">>, <<"\n">> }

CodecInit ==
    /\ SessionInit(<<>>)
    /\ cin \in {[kind |-> "line", line |-> l, msg |-> ZeroMsg] :
                  l \in Lines \cup ScenarioLines \cup EdgeLines}
           \cup {[kind |-> "msg", line |-> <<>>, msg |-> m] : m \in Msgs}
    /\ cout = NoOutput
    /\ FramerIdle
    /\ SenderIdle

\* ParseMsg(line)
DoParseMsg ==
    /\ cin.kind = "line" /\ cout.op = "none"
    /\ cout' = [op |-> "ParseMsg", raw |-> NoRaw, parsed |-> ParseMsg(cin.line)]
    /\ UNCHANGED <<cin, sessionVars, framerVars, senderVars>>

\* m.RawString()
DoRawString ==
    /\ cin.kind = "msg" /\ cout.op = "none"
    /\ cout' = [op |-> "RawString", raw |-> RawString(cin.msg), parsed |-> NoParsed]
    /\ UNCHANGED <<cin, sessionVars, framerVars, senderVars>>

\* ParseMsg(str) of the string RawString returned without error; RawString
\* returns "" for a message with no origin, command and arguments
DoReparse ==
    /\ cout.op = "RawString" /\ cout.raw.err = "nil"
    /\ cout' = [cout EXCEPT !.op = "Reparse", !.parsed = ParseMsg(cout.raw.str)]
    /\ UNCHANGED <<cin, sessionVars, framerVars, senderVars>>

\* m.RawString() of the message ParseMsg returned: what writeMsgs does with
\* a message that was received and is sent again
DoReserialize ==
    /\ cout.op = "ParseMsg" /\ ~cout.parsed.panic
    /\ cout' = [cout EXCEPT !.op = "Reserialize", !.raw = RawString(cout.parsed.msg)]
    /\ UNCHANGED <<cin, sessionVars, framerVars, senderVars>>

CodecNext == DoParseMsg \/ DoRawString \/ DoReparse \/ DoReserialize

CodecSpec == CodecInit /\ [][CodecNext]_vars

(***************************************************************************)
(* The framer specification: readMsgs applied to every byte stream of a    *)
(* bounded set, up to the first fatal error.                               *)
(***************************************************************************)
\* the concatenation of a sequence of strings
RECURSIVE Concat(_)
Concat(ss) == IF ss = <<>> THEN <<>> ELSE Head(ss) \o Concat(Tail(ss))

\* what short streams are made of: a payload byte, the marker, and the
\* bytes readMsgData treats specially
Pieces == { <<"a">>, MsgMarker, <<"\n">>, <<"\r">>, <<NUL>> }

\* the streams of at most MaxPieces pieces
ShortStreams == { Concat(ps) : ps \in Seqs(Pieces, MaxPieces) }

\* what follows the payload of a long line: at most MaxTail pieces
Tails == { Concat(ps) : ps \in Seqs(Pieces, MaxTail) }

\* streams that start with a run of payload bytes whose length is around
\* MaxMsgLength - 2, with and without a line feed inside the run
LongStreams ==
    { Rep("a", n) \o t : n \in EdgeLens, t \in Tails }
    \cup { <<"a", "\n">> \o Rep("a", n - 1) \o t : n \in EdgeLens, t \in Tails }

\* the streams of TestReadMsgDataOk, and one with bare line feeds between
\* and inside its lines
ScenarioStreams ==
    { <<"a", "\r", "\n", "b", "\r", "\n", "c", "\r", "\n">>,
      <<"a", "\r", "\n", "b", "\r", "\n", "\r", "\n", "c", "\r", "\n">>,
      <<"a", " ", "\r", "\n", "b", "\t", "\r", "\n", "\r", "\n", "c", "\r", "\n">>,
      <<"\n", "a", "\r", "\n", "a", "\n", "b", "\r", "\n", "\r", "\n",
        "c", "\r", "\n", "\n">> }

\* the longest line of TestReadMsgDataOk followed by a line that is one
\* byte longer
BoundaryStream ==
    Rep("a", MaxMsgLength - 2) \o MsgMarker
        \o Rep("a", MaxMsgLength - 1) \o MsgMarker

\* lines of around MaxMsgLength - 2 payload bytes that differ from
\* position to position, each with its marker
VariedStreams ==
    { [i \in 1..n |-> <<"a", "b", "c">>[(i % 3) + 1]] \o MsgMarker : n \in EdgeLens }

Streams ==
    ShortStreams \cup LongStreams \cup ScenarioStreams \cup {BoundaryStream}
        \cup VariedStreams

FramerInit ==
    /\ SessionInit(<<>>)
    /\ cin = NoInput /\ cout = NoOutput
    /\ fstream \in Streams
    /\ fpos = 0 /\ fprev = 0
    /\ fres = NoFrame /\ fpc = "read" /\ flog = <<>>
    /\ SenderIdle

\* m, err := readMsg(in)
LoopReadMsg ==
    /\ fpc = "read"
    /\ LET r == readMsg(From(fstream, fpos)) IN
         /\ fres' = r
         /\ fprev' = fpos
         /\ fpos' = fpos + r.frame.pos
         /\ fpc' = IF r.err # "nil" THEN "sendErr" ELSE "sendMsg"
    /\ UNCHANGED <<fstream, flog, sessionVars, codecVars, senderVars>>

\* errs <- err, and the break unless err is a MsgTooLong
LoopSendErr ==
    /\ fpc = "sendErr"
    /\ flog' = Append(flog, [ev |-> "err", err |-> fres.err, msg |-> ZeroMsg])
    /\ fpc' = IF fres.err = "MsgTooLong" THEN "sendMsg" ELSE "done"
    /\ UNCHANGED <<fstream, fpos, fprev, fres, sessionVars, codecVars, senderVars>>

\* ms <- m
LoopSendMsg ==
    /\ fpc = "sendMsg"
    /\ flog' = Append(flog, [ev |-> "msg", err |-> "nil", msg |-> fres.msg])
    /\ fpc' = "read"
    /\ UNCHANGED <<fstream, fpos, fprev, fres, sessionVars, codecVars, senderVars>>

FramerNext == LoopReadMsg \/ LoopSendErr \/ LoopSendMsg

FramerSpec == FramerInit /\ [][FramerNext]_vars

(***************************************************************************)
(* Properties of the session.                                              *)
(***************************************************************************)
(***************************************************************************)
(* The sender specification: win.send applied to every text of a bounded   *)
(* set in a chat window, with writeMsgs always ready to receive from       *)
(* client.Out.  The texts do not start with the /me command.               *)
(***************************************************************************)
\* how far the lengths of the texts reach to either side of the length
\* that just fits one PRIVMSG and of twice that length
MaxSpread == 2

\* the targets of the chat windows: a channel and a longer channel (the
\* names a server accepts are far shorter than the 500 bytes beyond which
\* no byte of t fits a PRIVMSG)
Targets == { <<"#", "c">>, <<"#", "c", "h", "a", "n">> }

\* the characters of the typed texts, by position
TextChars == <<"a", "b", "c", "d", "e", "f", "g">>

\* a typed text of n bytes, with or without its newline
Typed(n, nl) ==
    [i \in 1..n |-> IF nl /\ i = n THEN "\n" ELSE TextChars[(i % Len(TextChars)) + 1]]

\* the longest t that fits one PRIVMSG to target tg
FitLen(tg) ==
    MaxMsgLength - Len(MsgMarker) - Len(RawCandidate(MkMsg(PRIVMSG, <<tg, <<>>>>)))

\* the lengths of the typed texts for target tg
TextLens(tg) ==
    (1..MaxSpread)
    \cup ((FitLen(tg) - MaxSpread)..(FitLen(tg) + MaxSpread))
    \cup ((2 * FitLen(tg) - MaxSpread)..(2 * FitLen(tg) + MaxSpread))

\* a variant of the body of the loop that leaves out the first byte of
\* what remains of t after a piece has been cut off
splitStepDropByte(tg, t) ==
    LET m == MkMsg(PRIVMSG, <<tg, t>>)
        r == RawString(m)
    IN  IF r.err # "nil"
        THEN IF r.NTrunc > Len(t)
             THEN [panic |-> TRUE, m |-> m, t |-> t]
             ELSE [panic |-> FALSE,
                   m |-> [m EXCEPT !.Args[2] = SubSeq(t, 1, r.NTrunc)],
                   t |-> From(t, r.NTrunc + 1)]
        ELSE [panic |-> FALSE, m |-> m, t |-> <<>>]

\* the body of "for len(t) > 0" up to the send: m is the PRIVMSG with all
\* of t; when RawString refuses it, m.Args[1] = t[:mtl.NTrunc] and
\* t = t[mtl.NTrunc:] (a slice beyond len(t) panics), else t = ""
splitStep(tg, t) ==
    LET m == MkMsg(PRIVMSG, <<tg, t>>)
        r == RawString(m)
    IN  IF r.err # "nil"
        THEN IF r.NTrunc > Len(t)
             THEN [panic |-> TRUE, m |-> m, t |-> t]
             ELSE [panic |-> FALSE,
                   m |-> [m EXCEPT !.Args[2] = SubSeq(t, 1, r.NTrunc)],
                   t |-> From(t, r.NTrunc)]
        ELSE [panic |-> FALSE, m |-> m, t |-> <<>>]

SenderInit ==
    /\ SessionInit(<<>>)
    /\ cin = NoInput /\ cout = NoOutput
    /\ FramerIdle
    /\ sendTarget \in Targets
    /\ \E n \in TextLens(sendTarget), nl \in BOOLEAN : sendT = Typed(n, nl)
    /\ sendText = <<>>
    /\ sendM = ZeroMsg /\ sendPc = "start" /\ outbox = <<>>

\* send up to its loop: a newline is added to a text that does not end in
\* one, and send returns when t is a newline alone
SendBegin ==
    /\ sendPc = "start"
    /\ LET t == IF Len(sendT) > 0 /\ sendT[Len(sendT)] # "\n"
                THEN Append(sendT, "\n") ELSE sendT
       IN  /\ sendT' = t
           /\ sendText' = t
           /\ sendPc' = (IF t = <<"\n">> THEN "done" ELSE "loop")
    /\ UNCHANGED <<sendTarget, sendM, outbox, sessionVars, codecVars, framerVars>>

\* one pass of "for len(t) > 0" up to "client.Out <- m"
SendSplit ==
    /\ sendPc = "loop" /\ Len(sendT) > 0
    /\ LET s == splitStep(sendTarget, sendT)
       IN  /\ sendM' = s.m
           /\ sendT' = s.t
           /\ sendPc' = (IF s.panic THEN "panic" ELSE "sendOut")
    /\ UNCHANGED <<sendTarget, sendText, outbox, sessionVars, codecVars, framerVars>>

\* "client.Out <- m"
SendSubmit ==
    /\ sendPc = "sendOut"
    /\ outbox' = Append(outbox, sendM)
    /\ sendPc' = "loop"
    /\ UNCHANGED <<sendTarget, sendText, sendT, sendM, sessionVars, codecVars, framerVars>>

\* the loop ends: len(t) = 0
SendReturn ==
    /\ sendPc = "loop" /\ Len(sendT) = 0
    /\ sendPc' = "done"
    /\ UNCHANGED <<sendTarget, sendText, sendT, sendM, outbox, sessionVars, codecVars,
                   framerVars>>

SenderNext == SendBegin \/ SendSplit \/ SendSubmit \/ SendReturn

SenderSpec == SenderInit /\ [][SenderNext]_vars

\* no step of any goroutine, of the server or of the user is possible
Quiescent == ~ENABLED Next

\* the caller is inside register
InRegister == cpc \in {"regPass", "regNick", "regUser", "regRange", "regPong"}

\* a loop has detected an error other than MsgTooLong
FatalSeen == \E i \in 1..Len(reported) : reported[i].kind # "MsgTooLong"

\* writeMsgs has had a write or flush failure
WriteFailed ==
    \E i \in 1..Len(reported) : reported[i].src = "w" /\ reported[i].kind = "io"

\* error e has been received from c.Errors
Delivered(e) == \E i \in 1..Len(delivered) : delivered[i] = e

\* the caller is in handleConnection and receives from c.Errors and from
\* c.In as long as each is open
ConsumerAttentive ==
    /\ cpc \in {"select", "drain", "done"}
    /\ chClosed["errs"] \/ cpc \in {"select", "drain"}
    /\ chClosed["in"] \/ cpc = "select"

\* C1: muxErrors closes c.Errors only after both the read loop's and the
\* write loop's error channel have been closed.
C1_ErrorsClosedAfterBoth ==
    chClosed["errs"] => (chClosed["rerrs"] /\ chClosed["werrs"])

\* C2: register never blocks forever: once the stream has ended or a read
\* or write error has occurred while register is running, the session is
\* never in a state where register has not returned and no step is possible.
C2_RegisterNeverBlocks ==
    (InRegister /\ FatalSeen) => ENABLED Next

\* C3: after a write or flush failure a send on c.Out always completes:
\* with no error waiting to be received from c.Errors, the caller is never
\* blocked in a send on c.Out in a state where no step is possible.
C3_SendAfterFailureCompletes ==
    (WriteFailed /\ cpc \in SendingPcs /\ mpc # "fwd") => ENABLED Next

\* C4: after a write failure the error is delivered on c.Errors and c.In is
\* closed: with a consumer that receives from both while they are open, the
\* session never comes to rest with the write error undelivered or c.In open.
C4_WriteFailureSurfaces ==
    (Quiescent /\ WriteFailed /\ ConsumerAttentive)
        => /\ \A i \in 1..Len(reported) :
                (reported[i].src = "w" /\ reported[i].kind = "io")
                    => Delivered(reported[i])
           /\ chClosed["in"]

\* C5: once the connection has been closed after a terminal error, the
\* three loops exit and c.In and c.Errors are closed: with a consumer that
\* receives from both while they are open, the session never comes to rest
\* in any other state.
C5_TeardownCompletes ==
    (Quiescent /\ ~connOpen /\ FatalSeen /\ ConsumerAttentive)
        => /\ rpc = "done" /\ wpc = "done" /\ mpc = "done"
           /\ chClosed["in"] /\ chClosed["errs"]

\* C6: every error a loop reports is delivered on c.Errors, and the errors
\* of one loop are delivered in the order that loop reported them: the
\* delivered errors of a loop are numbered increasingly, and with a consumer
\* that receives from c.Errors while it is open the session never comes to
\* rest with a reported error undelivered.
C6_ErrorsDeliveredInOrder ==
    /\ \A i, j \in 1..Len(delivered) :
          (i < j /\ delivered[i].src = delivered[j].src)
              => delivered[i].n < delivered[j].n
    /\ (Quiescent /\ cpc \in {"select", "drain", "done"}
                  /\ (chClosed["errs"] \/ cpc \in {"select", "drain"}))
          => \A i \in 1..Len(reported) : Delivered(reported[i])

\* C7 as stated: c.conn.Close() is called exactly once in a session, by
\* exactly one of the two loops (never a second time).
C7_ClosedExactlyOnce ==
    closeCalls["r"] + closeCalls["w"] <= 1

\* C7 amended: each loop calls c.conn.Close() exactly once, as its last step
\* before it returns (readMsgs) or drains (writeMsgs), so that Close is
\* called at most twice; the connection is closed from the first call on.
C7_EachLoopClosesOnce ==
    /\ closeCalls["r"] = (IF rpc = "done" THEN 1 ELSE 0)
    /\ closeCalls["w"] = (IF wpc \in {"drain", "done"} THEN 1 ELSE 0)
    /\ connOpen <=> (closeCalls["r"] + closeCalls["w"] = 0)

\* both loops have called c.conn.Close()
C7_Witness ==
    closeCalls["r"] = 1 /\ closeCalls["w"] = 1 /\ ~connOpen

(***************************************************************************)
(* Properties of the codec.                                                *)
(***************************************************************************)
\* C8 as stated: ParseMsg never fails: for every input string, the empty
\* string included, it returns a message, returns no error and does not
\* panic.
C8_ParseNeverFails ==
    cout.op = "ParseMsg" => (~cout.parsed.panic /\ cout.parsed.err = "nil")

\* string s contains none of the characters of set cs
NoneOf(s, cs) == \A i \in 1..Len(s) : s[i] \notin cs

\* every field of m, taken on its own, is within the character limits of
\* the wire grammar, and Raw is unset
WellFormed(m) ==
    /\ m.Raw = <<>>
    /\ m.Cmd # <<>> /\ m.Cmd[1] # ":" /\ NoneOf(m.Cmd, {" ", "\n", "\r"})
    /\ NoneOf(m.Origin, {" ", "!", "@", "\n", "\r"})
    /\ NoneOf(m.User, {" ", "!", "@", "\n", "\r"})
    /\ NoneOf(m.Host, {" ", "!", "@", "\n", "\r"})
    /\ \A i \in 1..(Len(m.Args) - 1) :
          /\ m.Args[i] # <<>> /\ m.Args[i][1] # ":"
          /\ NoneOf(m.Args[i], {" ", "\n", "\r"})
    /\ Len(m.Args) > 0 => NoneOf(m.Args[Len(m.Args)], {"\n", "\r"})

\* ParseMsg has been applied to the string RawString returned for a
\* well-formed message
RoundTripped == cout.op = "Reparse" /\ WellFormed(cin.msg)

\* C9 as stated: ParseMsg(m.RawString()) has the command and the arguments
\* of m and reproduces each of origin, user and host whenever it was set in m.
C9_RoundTrip ==
    RoundTripped =>
        /\ ~cout.parsed.panic
        /\ cout.parsed.msg.Cmd = cin.msg.Cmd
        /\ cout.parsed.msg.Args = cin.msg.Args
        /\ cin.msg.Origin # <<>> => cout.parsed.msg.Origin = cin.msg.Origin
        /\ cin.msg.User # <<>> => cout.parsed.msg.User = cin.msg.User
        /\ cin.msg.Host # <<>> => cout.parsed.msg.Host = cin.msg.Host

\* C9 amended: ParseMsg(m.RawString()) has the command, the arguments and
\* the origin of m; it has the user of m only when the origin is set, and
\* the host of m only when both the origin and the user are set; a user or
\* host that RawString does not write parses back empty.
C9_RoundTripPrefixNested ==
    RoundTripped =>
        /\ ~cout.parsed.panic
        /\ cout.parsed.msg.Cmd = cin.msg.Cmd
        /\ cout.parsed.msg.Args = cin.msg.Args
        /\ cout.parsed.msg.Origin = cin.msg.Origin
        /\ cout.parsed.msg.User =
              (IF cin.msg.Origin # <<>> THEN cin.msg.User ELSE <<>>)
        /\ cout.parsed.msg.Host =
              (IF cin.msg.Origin # <<>> /\ cin.msg.User # <<>>
               THEN cin.msg.Host ELSE <<>>)

\* a well-formed message with a full prefix, a middle argument and a
\* trailing argument that holds a space has gone through the round trip
C9_Witness ==
    /\ RoundTripped
    /\ cin.msg.Origin # <<>> /\ cin.msg.User # <<>> /\ cin.msg.Host # <<>>
    /\ Len(cin.msg.Args) = 2
    /\ \E i \in 1..Len(cin.msg.Args[2]) : cin.msg.Args[2][i] = " "
    /\ cout.parsed.msg.Args = cin.msg.Args

\* C10: RawString never returns a string longer than MaxMsgLength minus
\* len(MsgMarker) = 510 bytes: for every message, with Raw set or unset, it
\* returns either a string of at most 510 bytes and no error, or MsgTooLong
\* with the whole candidate string and NTrunc = len(candidate) - 510.
C10_RawStringWithinLimit ==
    cout.op = "RawString" =>
        \/ /\ cout.raw.err = "nil"
           /\ Len(cout.raw.str) <= 510
        \/ /\ cout.raw.err = "MsgTooLong"
           /\ cout.raw.str = <<>>
           /\ cout.raw.Msg = RawCandidate(cin.msg)
           /\ Len(cout.raw.Msg) > 510
           /\ cout.raw.NTrunc = Len(cout.raw.Msg) - 510

\* RawString has refused a message built from its fields whose candidate
\* string is one byte over the limit
C10_Witness ==
    /\ cout.op = "RawString" /\ cout.raw.err = "MsgTooLong"
    /\ cin.msg.Raw = <<>> /\ cout.raw.NTrunc = 1

(***************************************************************************)
(* Properties of the framer.                                               *)
(***************************************************************************)
\* the k-th smallest element of a set of numbers
NthOf(S, k) == CHOOSE i \in S : Cardinality({j \in S : j < i}) = k - 1

\* the positions of the carriage returns of s
CRs(s) == {i \in 1..Len(s) : s[i] = "\r"}

\* t without its line feeds
DropLF(t) == SelectSeq(t, LAMBDA c : c # "\n")

\* the payload between the (k-1)-th and the k-th terminator of a stream in
\* which every carriage return starts a terminator
Segment(s, k) ==
    LET lo == IF k = 1 THEN 1 ELSE NthOf(CRs(s), k - 1) + 2
        hi == IF k > Cardinality(CRs(s)) THEN Len(s) ELSE NthOf(CRs(s), k) - 1
    IN DropLF(SubSeq(s, lo, hi))

\* the non-empty lines of s, in order
ExpectedLines(s) ==
    SelectSeq([k \in 1..Cardinality(CRs(s)) |-> Segment(s, k)],
              LAMBDA t : t # <<>>)

\* s is made of CR LF terminated lines of at most MaxMsgLength - 2 payload
\* bytes, empty lines and bare line feeds, and of nothing else
WellFormedStream(s) ==
    /\ \A i \in 1..Len(s) : s[i] # NUL
    /\ \A i \in CRs(s) : i < Len(s) /\ s[i + 1] = "\n"
    /\ \A k \in 1..Cardinality(CRs(s)) : Len(Segment(s, k)) <= MaxMsgLength - 2
    /\ Segment(s, Cardinality(CRs(s)) + 1) = <<>>

\* the strings the readMsgData calls made so far have returned without error
Returned ==
    LET sent == SelectSeq(flog, LAMBDA e : e.ev = "msg")
        got  == [k \in 1..Len(sent) |-> sent[k].msg.Raw]
    IN IF fpc = "sendMsg" /\ fres.err = "nil" THEN Append(got, fres.frame.data)
       ELSE got

\* C11: framing conservation: on a stream of N well-formed non-empty lines,
\* empty lines and bare line feeds the calls of readMsgData return those N
\* lines without their line feeds, in order, and the call after the last
\* line returns io.EOF; no call returns another error.
C11_FramingConservation ==
    WellFormedStream(fstream) =>
        /\ Len(Returned) <= Len(ExpectedLines(fstream))
        /\ Returned = SubSeq(ExpectedLines(fstream), 1, Len(Returned))
        /\ fres.err \in {"nil", "EOF"}
        /\ fres.err = "EOF" => Returned = ExpectedLines(fstream)

\* a stream of three lines with an empty line and bare line feeds has been
\* read to its end
C11_Witness ==
    /\ WellFormedStream(fstream) /\ fpc = "done" /\ fres.err = "EOF"
    /\ Len(Returned) = 3
    /\ \E i \in 1..Len(fstream) : fstream[i] = "\n" /\ (i = 1 \/ fstream[i - 1] # "\r")
    /\ \E i \in 1..(Len(fstream) - 3) : SubSeq(fstream, i, i + 3) = MsgMarker \o MsgMarker

\* a readMsgData call has been made: fres is its result and the reader held
\* the bytes of fstream after the first fprev
Called == fres # NoFrame

\* the bytes the reader held when the last readMsgData call was made
LastInput == From(fstream, fprev)

\* the position of the first carriage return of s, 0 when there is none
FirstCR(s) == IF CRs(s) = {} THEN 0 ELSE NthOf(CRs(s), 1)

\* s starts with a line: payload bytes and line feeds without a NUL, then
\* CR LF
TerminatedHead(s) ==
    /\ FirstCR(s) > 0 /\ FirstCR(s) < Len(s) /\ s[FirstCR(s) + 1] = "\n"
    /\ \A i \in 1..(FirstCR(s) - 1) : s[i] # NUL

\* the payload of the line s starts with
HeadPayload(s) == DropLF(SubSeq(s, 1, FirstCR(s) - 1))

\* C12: length boundary: a line of exactly 510 payload bytes followed by
\* CR LF is returned intact by readMsgData, and a line of 511 or more
\* payload bytes before its terminator makes it fail with MsgTooLong.
C12_LengthBoundary ==
    (Called /\ TerminatedHead(LastInput)) =>
        /\ Len(HeadPayload(LastInput)) = MaxMsgLength - Len(MsgMarker)
             => /\ fres.err = "nil"
                /\ fres.frame.data = HeadPayload(LastInput)
        /\ Len(HeadPayload(LastInput)) > MaxMsgLength - Len(MsgMarker)
             => fres.err = "MsgTooLong"

\* a line of 510 payload bytes has been returned and the line of 511 payload
\* bytes that follows it has been refused
C12_Witness ==
    /\ Called /\ TerminatedHead(LastInput)
    /\ Len(HeadPayload(LastInput)) = MaxMsgLength - Len(MsgMarker) + 1
    /\ fres.err = "MsgTooLong"
    /\ \E k \in 1..Len(flog) :
          flog[k].ev = "msg" /\ Len(flog[k].msg.Raw) = MaxMsgLength - Len(MsgMarker)

\* the position of the first NUL or carriage return of s, Len(s) + 1 when
\* there is none
FirstSpecial(s) ==
    LET stops == {i \in 1..Len(s) : s[i] \in {NUL, "\r"}}
    IN IF stops = {} THEN Len(s) + 1
       ELSE CHOOSE i \in stops : \A j \in stops : i <= j

\* the payload bytes s starts with: up to the first NUL or carriage return,
\* without the line feeds
LeadingPayload(s) == DropLF(SubSeq(s, 1, FirstSpecial(s) - 1))

\* s starts with an oversized line: more than MaxMsgLength - 2 payload bytes
\* come before any NUL or carriage return
Oversized(s) == Len(LeadingPayload(s)) > MaxMsgLength - 2

\* the number of bytes of s up to and including its first CR LF, Len(s) when
\* there is none
ThroughTerminator(s) ==
    LET ms == {i \in 1..(Len(s) - 1) : s[i] = "\r" /\ s[i + 1] = "\n"}
    IN IF ms = {} THEN Len(s)
       ELSE (CHOOSE i \in ms : \A j \in ms : i <= j) + 1

NulInHead(s) == FirstSpecial(s) <= Len(s) /\ s[FirstSpecial(s)] = NUL

\* C14 as stated: a NUL anywhere in a line, at any offset and whatever the
\* length of the line, makes readMsgData fail with "unexpected null".
C14_NulAlwaysReported ==
    (Called /\ NulInHead(LastInput)) => fres.err = "unexpected null"

\* C14 amended: a NUL makes readMsgData fail with "unexpected null" when at
\* most MaxMsgLength - 2 payload bytes of the line precede it; a NUL that
\* comes later in the line is discarded by junk with the rest of the line and
\* the call fails with MsgTooLong; a NUL that directly follows a carriage
\* return makes the call fail with "unexpected carrage return".
C14_NulReportedWithinLimit ==
    Called =>
        /\ (NulInHead(LastInput) /\ ~Oversized(LastInput))
              => fres.err = "unexpected null"
        /\ (NulInHead(LastInput) /\ Oversized(LastInput))
              => /\ fres.err = "MsgTooLong"
                 /\ fpos >= fprev + FirstSpecial(LastInput)
        /\ (/\ ~Oversized(LastInput)
            /\ FirstSpecial(LastInput) < Len(LastInput)
            /\ LastInput[FirstSpecial(LastInput)] = "\r"
            /\ LastInput[FirstSpecial(LastInput) + 1] = NUL)
              => fres.err = "unexpected carrage return"

\* a NUL that follows exactly MaxMsgLength - 2 payload bytes has been
\* reported
C14_Witness ==
    /\ Called /\ NulInHead(LastInput)
    /\ Len(LeadingPayload(LastInput)) = MaxMsgLength - 2
    /\ fres.err = "unexpected null"

\* s ends in the middle of a line: it holds at least one payload byte and
\* neither a carriage return nor a NUL
EndsMidLine(s) == FirstSpecial(s) = Len(s) + 1 /\ Len(LeadingPayload(s)) >= 1

\* C15 as stated: when the stream ends while a message is partly accumulated
\* readMsgData fails with "unexpected end of file", however many bytes were
\* accumulated.
C15_TruncatedStreamReported ==
    (Called /\ EndsMidLine(LastInput)) => fres.err = "unexpected end of file"

\* C15 amended: when the stream ends after 1 to MaxMsgLength - 2 payload
\* bytes of an unterminated line readMsgData fails with "unexpected end of
\* file"; when it ends after more payload bytes the call fails with
\* MsgTooLong and has consumed the whole stream.
C15_TruncatedStreamWithinLimit ==
    (Called /\ EndsMidLine(LastInput)) =>
        /\ ~Oversized(LastInput) => fres.err = "unexpected end of file"
        /\ Oversized(LastInput) => (fres.err = "MsgTooLong" /\ fpos = Len(fstream))

\* a stream that ends after exactly MaxMsgLength - 2 payload bytes has been
\* reported as truncated
C15_Witness ==
    /\ Called /\ EndsMidLine(LastInput)
    /\ Len(LeadingPayload(LastInput)) = MaxMsgLength - 2
    /\ fres.err = "unexpected end of file"

\* s holds no payload byte and no NUL, and each of its carriage returns but
\* possibly its last byte is followed by a line feed: reading s reaches the
\* end of the stream with nothing accumulated
NothingAccumulated(s) ==
    /\ \A i \in 1..Len(s) : s[i] \in {"\r", "\n"}
    /\ \A i \in 1..(Len(s) - 1) : s[i] = "\r" => s[i + 1] = "\n"

\* the last byte of s is a carriage return
EndsAfterCR(s) == Len(s) >= 1 /\ s[Len(s)] = "\r"

\* C16 as stated: when the stream ends while nothing has been accumulated
\* readMsgData returns io.EOF and never a framing error.
C16_EndOfStreamPropagated ==
    (Called /\ NothingAccumulated(LastInput)) => fres.err = "EOF"

\* C16 amended: when the stream ends while nothing has been accumulated and
\* not directly after a carriage return, readMsgData returns io.EOF; when it
\* ends directly after a carriage return the call fails with "unexpected end
\* of file", even with nothing accumulated.
C16_EndOfStreamUnlessAfterCR ==
    (Called /\ NothingAccumulated(LastInput)) =>
        /\ ~EndsAfterCR(LastInput) => fres.err = "EOF"
        /\ EndsAfterCR(LastInput) => fres.err = "unexpected end of file"

\* the stream has ended after a line and some empty lines or line feeds, and
\* the call made after that line has returned io.EOF
C16_Witness ==
    /\ Called /\ NothingAccumulated(LastInput) /\ ~EndsAfterCR(LastInput)
    /\ Len(LastInput) >= 1 /\ Len(flog) >= 1 /\ flog[1].ev = "msg"
    /\ fres.err = "EOF"

\* the first NUL or carriage return of s is a carriage return whose next
\* byte exists and is not a line feed
BareCRInHead(s) ==
    /\ FirstSpecial(s) < Len(s)
    /\ s[FirstSpecial(s)] = "\r"
    /\ s[FirstSpecial(s) + 1] # "\n"

\* no string readMsgData has returned, as a line or in a MsgTooLong, holds a
\* carriage return
NoCRReturned ==
    /\ \A i \in 1..Len(fres.frame.data) : fres.frame.data[i] # "\r"
    /\ \A i \in 1..Len(fres.frame.Msg) : fres.frame.Msg[i] # "\r"

\* C17 as stated: a carriage return whose next byte exists and is not a line
\* feed makes readMsgData fail with "unexpected carrage return", whatever has
\* been accumulated; no returned line holds a carriage return.
C17_BareCRReported ==
    /\ (Called /\ BareCRInHead(LastInput)) => fres.err = "unexpected carrage return"
    /\ NoCRReturned

\* C17 amended: a carriage return whose next byte exists and is not a line
\* feed makes readMsgData fail with "unexpected carrage return" when at most
\* MaxMsgLength - 2 payload bytes of the line precede it; in the discarded
\* rest of an oversized line such a carriage return is skipped and the call
\* fails with MsgTooLong; no returned string holds a carriage return.
C17_BareCRReportedWithinLimit ==
    /\ (Called /\ BareCRInHead(LastInput) /\ ~Oversized(LastInput))
          => fres.err = "unexpected carrage return"
    /\ (Called /\ BareCRInHead(LastInput) /\ Oversized(LastInput))
          => (fres.err = "MsgTooLong" /\ fpos > fprev + FirstSpecial(LastInput))
    /\ NoCRReturned

\* a carriage return followed by a payload byte, after exactly
\* MaxMsgLength - 2 payload bytes, has been reported
C17_Witness ==
    /\ Called /\ BareCRInHead(LastInput)
    /\ Len(LeadingPayload(LastInput)) = MaxMsgLength - 2
    /\ LastInput[FirstSpecial(LastInput) + 1] = "a"
    /\ fres.err = "unexpected carrage return"

(***************************************************************************)
(* Properties of ParseMsg.                                                 *)
(***************************************************************************)
\* the position of the first c in s at or after position from, 0 when there
\* is none
FirstAt(s, c, from) ==
    LET P == {i \in from..Len(s) : s[i] = c}
    IN IF P = {} THEN 0 ELSE CHOOSE i \in P : \A j \in P : i <= j

\* the positions at which a space-delimited token of s starts
TokenStarts(s) == {i \in 1..Len(s) : s[i] # " " /\ (i = 1 \/ s[i - 1] = " ")}

\* the token of s that starts at position i
TokenAt(s, i) ==
    SubSeq(s, i, IF FirstAt(s, " ", i) = 0 THEN Len(s) ELSE FirstAt(s, " ", i) - 1)

\* the tokens of s that start at the positions of S, in order
TokensAt(s, S) == [k \in 1..Cardinality(S) |-> TokenAt(s, NthOf(S, k))]

\* ParseMsg has been applied to a non-empty line
Parsed == cout.op = "ParseMsg" /\ Len(cin.line) > 0

\* the prefix of a line that starts with ':': the text between the ':' and
\* the first space
PrefixOf(l) ==
    SubSeq(l, 2, IF FirstAt(l, " ", 1) = 0 THEN Len(l) ELSE FirstAt(l, " ", 1) - 1)

\* the token starts of a line that starts with ':' other than the prefix's
AfterPrefix(l) == {i \in TokenStarts(l) : i > 1}

\* C18: for a line that starts with ':' ParseMsg takes the text up to the
\* first space as the prefix: Origin is the part before the first '!', User
\* the part between that '!' and the first following '@', Host the rest; with
\* no '!' the whole prefix is Origin and User and Host are empty; the first
\* token after the prefix is Cmd.  A line that does not start with ':' has
\* empty Origin, User and Host.
C18_PrefixSplit ==
    Parsed =>
      LET l    == cin.line
          m    == cout.parsed.msg
          p    == PrefixOf(l)
          bang == FirstAt(p, "!", 1)
          at   == IF bang = 0 THEN 0 ELSE FirstAt(p, "@", bang + 1)
      IN IF l[1] = ":"
         THEN /\ m.Origin = (IF bang = 0 THEN p ELSE SubSeq(p, 1, bang - 1))
              /\ m.User = (IF bang = 0 THEN <<>>
                           ELSE IF at = 0 THEN SubSeq(p, bang + 1, Len(p))
                           ELSE SubSeq(p, bang + 1, at - 1))
              /\ m.Host = (IF at = 0 THEN <<>> ELSE SubSeq(p, at + 1, Len(p)))
              /\ m.Cmd = (IF AfterPrefix(l) = {} THEN <<>>
                          ELSE TokenAt(l, NthOf(AfterPrefix(l), 1)))
         ELSE m.Origin = <<>> /\ m.User = <<>> /\ m.Host = <<>>

\* the line ":e!foo@bar.com JOIN #test54321" has been parsed into origin e,
\* user foo, host bar.com and command JOIN
C18_Witness ==
    /\ Parsed /\ cin.line = ScenarioFullPrefix
    /\ cout.parsed.msg.Origin = <<"e">>
    /\ cout.parsed.msg.User = <<"f", "o", "o">>
    /\ cout.parsed.msg.Host = <<"b", "a", "r", ".", "c", "o", "m">>
    /\ cout.parsed.msg.Cmd = JOIN

\* the token starts of line l from which ParseMsg takes arguments: those
\* after the command token; the command token is the first token after the
\* prefix of a line that starts with ':' and the first token of a line that
\* starts with another byte than a space
ArgStarts(l) ==
    IF l[1] = ":"
    THEN IF AfterPrefix(l) = {} THEN {}
         ELSE {i \in TokenStarts(l) : i > NthOf(AfterPrefix(l), 1)}
    ELSE {i \in TokenStarts(l) : i > 1}

\* the starts of the argument tokens of l that begin with ':'
ColonStarts(l) == {i \in ArgStarts(l) : l[i] = ":"}

\* C19: as soon as the text left after the command starts with ':' the rest
\* of the line without that ':' is one final argument, spaces and further
\* ':' included: the arguments are the tokens before it followed by that
\* rest; a ':' at the end of the line gives one empty argument.
C19_TrailingArgument ==
    (Parsed /\ ColonStarts(cin.line) # {}) =>
      LET l == cin.line
          t == NthOf(ColonStarts(l), 1)
      IN cout.parsed.msg.Args =
            TokensAt(l, {i \in ArgStarts(l) : i < t}) \o <<SubSeq(l, t + 1, Len(l))>>

\* the line "JOIN #test54321 ::foo bar" has been parsed into the arguments
\* "#test54321" and ":foo bar"
C19_Witness ==
    /\ Parsed /\ cin.line = ScenarioTrailingColon
    /\ Len(cout.parsed.msg.Args) = 2
    /\ cout.parsed.msg.Args[2] = <<":", "f", "o", "o", " ", "b", "a", "r">>

\* C20 as stated: runs of spaces collapse: for a line with at least one
\* token and no trailing argument Cmd is the first token (the first after
\* the prefix of a line that starts with ':') and Args are the remaining
\* tokens in order; leading, repeated and trailing spaces give no empty
\* command or argument.
C20_SpacesCollapse ==
    (/\ Parsed
     /\ ColonStarts(cin.line) = {}
     /\ (IF cin.line[1] = ":" THEN AfterPrefix(cin.line) ELSE TokenStarts(cin.line)) # {})
      =>
      LET l    == cin.line
          body == IF l[1] = ":" THEN AfterPrefix(l) ELSE TokenStarts(l)
          toks == TokensAt(l, body)
      IN /\ cout.parsed.msg.Cmd = toks[1]
         /\ cout.parsed.msg.Args = Tail(toks)

(***************************************************************************)
(* Properties of the registration handshake and of the two loops.          *)
(***************************************************************************)
\* the line written for a message with command cmd and the single
\* argument arg
Line1(cmd, arg) == cmd \o <<" ", ":">> \o arg \o MsgMarker

\* the lines register writes for password p, nick and fullname, in order
HandshakeLines(p) ==
    (IF p # <<>> THEN <<Line1(PASS, p)>> ELSE <<>>)
        \o << Line1(NICK, nick),
              USER \o <<" ">> \o nick \o <<" ", "0", " ", "*", " ", ":">>
                   \o fullname \o MsgMarker >>

\* line l is a PASS message
IsPassLine(l) == Len(l) >= 4 /\ SubSeq(l, 1, 4) = PASS

\* C21: the lines written to the connection begin with the handshake in its
\* fixed order: PASS <password> only when a non-empty password was given,
\* then NICK <nick>, then USER <nick> 0 * <fullname>; everything else is
\* written after these, and without a password no PASS line is written.
C21_HandshakeOrder ==
    /\ \A i \in 1..Len(wire) :
          i <= Len(HandshakeLines(pass)) => wire[i] = HandshakeLines(pass)[i]
    /\ pass = <<>> => \A i \in 1..Len(wire) : ~IsPassLine(wire[i])

\* with a password given, PASS, NICK and USER and then one more line have
\* been written
C21_Witness ==
    /\ pass # <<>>
    /\ Len(wire) = 4
    /\ IsPassLine(wire[1])
    /\ SubSeq(wire[2], 1, 4) = NICK
    /\ SubSeq(wire[3], 1, 4) = USER

\* register, waiting in "for msg := range c.In", receives the message the
\* read loop is sending on c.In
RegisterReceives == cpc = "regRange" /\ rpc = "sendMsg" /\ rpc' = "read"

\* register has returned an error
Failed == cpc = "failed"

\* register has returned nil
Ready == cpc \notin {"regPass", "regNick", "regUser", "regRange", "regPong", "failed"}

\* C22: when register, awaiting the welcome reply, receives one of the
\* numerics 431, 432, 433, 436, 437, 484, 461, 462, it returns an error
\* whose text is the reply's last argument, or the reply's symbolic name
\* when the reply has no arguments; c.Server stays empty, and once register
\* has failed it stays failed: it never becomes ready.
C22_FailureNumericFails ==
    [][ /\ (RegisterReceives /\ rmsg.Cmd \in FailureNumerics)
            => /\ Failed'
               /\ regErr'.kind = "reply"
               /\ IF Len(rmsg.Args) > 0
                  THEN /\ regErr'.text = rmsg.Args[Len(rmsg.Args)]
                       /\ regErr'.name = ""
                  ELSE /\ regErr'.text = <<>>
                       /\ regErr'.name = CmdNames(rmsg.Cmd)
                       /\ regErr'.name # ""
               /\ Server' = <<>>
        /\ Failed => (Failed' /\ ~Ready' /\ Server' = <<>> /\ regErr' = regErr)
      ]_vars

\* register has failed on the reply ":s 433 n :in use" with the text
\* "in use", and c.Server is empty
C22_Witness ==
    /\ Failed
    /\ rmsg.Cmd = ERR_NICKNAMEINUSE
    /\ regErr = RegErr("reply", <<"i", "n", " ", "u", "s", "e">>, "")
    /\ Server = <<>>

\* C23: c.Server is empty in every state before register has returned nil;
\* register returns nil exactly when it receives the welcome reply (001)
\* while awaiting it; in that step c.Server becomes the origin of that
\* reply, and it is not changed afterwards.
C23_ServerSetOnWelcome ==
    /\ [](~Ready => Server = <<>>)
    /\ [][ /\ (~Ready /\ Ready') <=> (RegisterReceives /\ rmsg.Cmd = RPL_WELCOME)
           /\ (~Ready /\ Ready') => Server' = rmsg.Origin
           /\ Ready => (Ready' /\ Server' = Server)
         ]_vars

\* register has returned nil after the welcome reply of server "s", and the
\* read loop has called readMsg again since
C23_Witness ==
    /\ Ready
    /\ Server = Str1("s")
    /\ readsLeft = 0
    /\ rmsg.Cmd # RPL_WELCOME

\* the text of a written line, without its terminator
Unterminated(l) == SubSeq(l, 1, Len(l) - Len(MsgMarker))

\* the number of PONG lines written to the connection
PongsWritten ==
    Cardinality({i \in 1..Len(wire) : SubSeq(wire[i], 1, 4) = PONG})

\* C24: a PING that register receives while awaiting the welcome reply is
\* answered with one PONG that has the PING's arguments: register goes on
\* to send that PONG on c.Out and receives nothing from c.In until the write
\* loop has taken it, then awaits the welcome reply again; the line the write
\* loop writes for a PONG parses back to PONG with the same arguments, and
\* no more PONG lines are written than lines were read.
C24_PingAnsweredInRegister ==
    /\ [](PongsWritten <= MaxReads - readsLeft)
    /\ [][ /\ (RegisterReceives /\ rmsg.Cmd = PING)
               => (cpc' = "regPong" /\ cmsg' = MkMsg(PONG, rmsg.Args))
           /\ cpc = "regPong"
               => \/ cpc' = "regPong" /\ cmsg' = cmsg /\ ~RegisterReceives
                  \/ /\ cpc' = "regRange"
                     /\ \/ wpc = "recv" /\ wpc' = "got" /\ wmsg' = cmsg
                        \/ wpc = "drain"
           /\ (wpc = "got" /\ wmsg.Cmd = PONG /\ wire' # wire)
               => /\ Len(wire') = Len(wire) + 1
                  /\ SubSeq(wire', 1, Len(wire)) = wire
                  /\ LET p == ParseMsg(Unterminated(wire'[Len(wire')])).msg
                     IN p.Cmd = PONG /\ p.Args = wmsg.Args
                  /\ wmsg' = NoMsg
         ]_vars

\* register awaits the welcome reply again after the PING ":xy" it received
\* has been answered with the line "PONG :xy"
C24_Witness ==
    /\ cpc = "regRange"
    /\ rmsg.Cmd = PING /\ rmsg.Args = << <<"x", "y">> >>
    /\ Len(wire) > 0
    /\ wire[Len(wire)] = <<"P", "O", "N", "G", " ", ":", "x", "y", "\r", "\n">>

WaitCycle == wpc = "sendErr" /\ mpc = "fwd" /\ cpc \in SendingPcs

\* C26 as stated: an oversized outbound message does not kill the session:
\* with the connection open and no fatal error anywhere, the write loop that
\* has a MsgTooLong to report is never held for good in that report, so that
\* it goes on to the messages submitted after it.
C26_OversizedSendSurvives ==
    (wpc = "sendErr" /\ werr.kind = "MsgTooLong" /\ connOpen /\ ~FatalSeen)
        => ~WaitCycle

\* readMsg has returned an error other than MsgTooLong
ReadFatal == rerr.kind \notin {"nil", "MsgTooLong"}

\* the caller is in handleConnection and receives from c.Errors as long as
\* it is open
ErrorsConsumed ==
    /\ cpc \in {"select", "drain", "done"}
    /\ chClosed["errs"] \/ cpc \in {"select", "drain"}

\* the number of entries of log that are fatal errors of the read loop
FatalReadErrors(log) ==
    Cardinality({i \in 1..Len(log) :
                    log[i].src = "r" /\ log[i].kind # "MsgTooLong"})

\* C27 as stated: an error of readMsg other than MsgTooLong is fatal to the
\* read loop: the loop frames nothing further and delivers no message for
\* it, reports the error exactly once, and closes its error channel, c.In
\* and the connection: with a consumer that receives from c.Errors while it
\* is open, the session never comes to rest with the read loop short of
\* that.
C27_ReadErrorIsFatal ==
    /\ ReadFatal => /\ rpc \in {"sendErr", "closeErrs", "closeMs", "closeConn", "done"}
                    /\ rmsg = ZeroMsg
    /\ FatalReadErrors(reported) <= 1 /\ FatalReadErrors(delivered) <= 1
    /\ rpc = "done" => (chClosed["rerrs"] /\ chClosed["in"] /\ ~connOpen)
    /\ (Quiescent /\ ReadFatal /\ ErrorsConsumed)
          => /\ rpc = "done"
             /\ Delivered(rerr)
             /\ chClosed["rerrs"] /\ chClosed["in"] /\ ~connOpen


\* writeMsgs has left "for m := range ms" because c.Out was closed, not
\* because a write failed
LeftByClose ==
    /\ wpc \in {"closeErrs", "closeConn", "drain", "done"}
    /\ ~WriteFailed

\* the number of messages writeMsgs has refused as too long
Refused ==
    Cardinality({i \in 1..Len(reported) :
                    reported[i].src = "w" /\ reported[i].kind = "MsgTooLong"})

\* the number of messages the caller has submitted to the established
\* session
Submitted == MaxLateSends - sendsLeft

\* C28: when the caller closes c.Out while writeMsgs is in its range loop,
\* writeMsgs has no message in hand when the loop ends, every message
\* submitted before the close that fits a line is on the connection, the
\* loop then closes its error channel and the connection, and it reports no
\* error for the close; with a consumer that receives from c.Errors while
\* it is open, the session never comes to rest with writeMsgs short of that.
C28_CloseOfOutEndsWriter ==
    /\ [](/\ LeftByClose => /\ chClosed["out"]
                            /\ wmsg = NoMsg
                            /\ Len(wire) + Refused = 2 + Submitted
          /\ (LeftByClose /\ wpc # "closeErrs") => chClosed["werrs"]
          /\ (LeftByClose /\ wpc \in {"drain", "done"}) => ~connOpen
          /\ (Quiescent /\ chClosed["out"] /\ ~WriteFailed /\ ErrorsConsumed)
                => wpc = "done")
    /\ [][(chClosed["out"] /\ wpc \in {"recv", "closeErrs", "closeConn", "drain"})
             => ErrCount("w")' = ErrCount("w")]_vars


(***************************************************************************)
(* Properties of RawString.                                                *)
(***************************************************************************)
\* str is raw without its trailing line feeds: a prefix of raw that does
\* not end in a line feed, followed in raw by line feeds only
StrippedOf(str, raw) ==
    /\ Len(str) <= Len(raw)
    /\ str = SubSeq(raw, 1, Len(str))
    /\ str = <<>> \/ str[Len(str)] # "\n"
    /\ \A i \in (Len(str) + 1)..Len(raw) : raw[i] = "\n"

\* RawString has been applied to a message with Raw set
RawSet == cout.op = "RawString" /\ cin.msg.Raw # <<>>

\* C29 as stated: for every message with Raw non-empty RawString returns
\* Raw without its trailing line feeds, whatever the other fields hold.
C29_RawReturned ==
    RawSet => /\ cout.raw.err = "nil"
              /\ StrippedOf(cout.raw.str, cin.msg.Raw)

\* C29: for every message with Raw non-empty and of at most 510 bytes
\* (trailing line feeds counted) RawString returns Raw without its trailing
\* line feeds, whatever the other fields hold; for a longer Raw it returns
\* MsgTooLong with Raw as the message and len(Raw) - 510 as NTrunc.
C29_RawReturnedWithinLimit ==
    RawSet =>
        IF Len(cin.msg.Raw) <= 510
        THEN /\ cout.raw.err = "nil"
             /\ StrippedOf(cout.raw.str, cin.msg.Raw)
        ELSE /\ cout.raw.err = "MsgTooLong"
             /\ cout.raw.str = <<>>
             /\ cout.raw.Msg = cin.msg.Raw
             /\ cout.raw.NTrunc = Len(cin.msg.Raw) - 510

\* RawString has returned the Raw of a message whose other fields are set,
\* without the two line feeds Raw ends in
C29_Witness ==
    /\ RawSet /\ cout.raw.err = "nil"
    /\ cin.msg.Origin # <<>> /\ cin.msg.User # <<>> /\ cin.msg.Cmd # <<>>
    /\ cin.msg.Args # <<>>
    /\ Len(cout.raw.str) = Len(cin.msg.Raw) - 2


\* the prefix of the line of message m: ":" origin, "!" user "@" host when
\* user is set, and one space; nothing when origin is empty
PrefixText(m) ==
    IF m.Origin = <<>> THEN <<>>
    ELSE <<":">> \o m.Origin
         \o (IF m.User = <<>> THEN <<>> ELSE <<"!">> \o m.User \o <<"@">> \o m.Host)
         \o <<" ">>

\* argument i of message m as it stands in the line: after " :" when it is
\* the last argument, after one space otherwise
ArgText(m, i) ==
    (IF i = Len(m.Args) THEN <<" ", ":">> ELSE <<" ">>) \o m.Args[i]

\* the line of message m: prefix, command, arguments
FieldsText(m) ==
    PrefixText(m) \o m.Cmd \o Concat([i \in 1..Len(m.Args) |-> ArgText(m, i)])

\* RawString has been applied to a message with Raw unset
RawUnset == cout.op = "RawString" /\ cin.msg.Raw = <<>>

\* C30 as stated: for a message with Raw unset RawString emits the prefix
\* when Origin is non-empty, then the command, then every argument but the
\* last after one space and the last argument after " :", whatever its
\* content; with no arguments nothing follows the command.
C30_FieldsSerialized ==
    (RawUnset /\ cout.raw.err = "nil") => cout.raw.str = FieldsText(cin.msg)

\* C30: for a message with Raw unset the line RawString builds is the
\* prefix when Origin is non-empty, then the command, then every argument
\* but the last after one space and the last argument after " :", whatever
\* its content; RawString returns that line without its trailing line
\* feeds when it has at most 510 bytes, and MsgTooLong carrying that line
\* otherwise.
C30_FieldsSerializedTrimmed ==
    RawUnset =>
        IF Len(FieldsText(cin.msg)) <= 510
        THEN /\ cout.raw.err = "nil"
             /\ StrippedOf(cout.raw.str, FieldsText(cin.msg))
        ELSE /\ cout.raw.err = "MsgTooLong"
             /\ cout.raw.Msg = FieldsText(cin.msg)

\* RawString has written ":o!u@h C :" for a message with origin, user and
\* host whose only argument is the empty string
C30_Witness ==
    /\ RawUnset /\ cout.raw.err = "nil"
    /\ cin.msg.Origin = <<"o">> /\ cin.msg.User = <<"u">> /\ cin.msg.Host = <<"h">>
    /\ cin.msg.Cmd = <<"C">> /\ cin.msg.Args = << <<>> >>
    /\ cout.raw.str = <<":", "o", "!", "u", "@", "h", " ", "C", " ", ":">>


(***************************************************************************)
(* Properties of win.send.                                                 *)
(***************************************************************************)
\* C31: every PRIVMSG that send submits to client.Out is one RawString
\* accepts, so that writeMsgs reports no MsgTooLong for it.
C31_PiecesFit ==
    \A i \in 1..Len(outbox) : RawString(outbox[i]).err = "nil"


\* the second arguments of the messages of box, one after the other
Payloads(box) == Concat([i \in 1..Len(box) |-> box[i].Args[2]])

\* send has nothing more to do
SenderQuiescent == ~ENABLED SenderNext

\* C39: the loop of send ends for every text, and the payloads of the
\* PRIVMSGs it submits to client.Out, in the order of submission, make up
\* the text: at every point the payloads submitted, the payload in hand and
\* what remains of t are the text, every pass of the loop cuts at least one
\* byte off t, and send comes to rest only by returning.
C39_SplitKeepsText ==
    /\ [](/\ sendPc = "loop" => Payloads(outbox) \o sendT = sendText
          /\ sendPc = "sendOut" => Payloads(Append(outbox, sendM)) \o sendT = sendText
          /\ (sendPc = "done" /\ sendText # <<"\n">>) => Payloads(outbox) = sendText
          /\ \A i \in 1..Len(outbox) : /\ outbox[i].Cmd = PRIVMSG
                                       /\ Len(outbox[i].Args) = 2
                                       /\ outbox[i].Args[1] = sendTarget
          /\ SenderQuiescent => sendPc = "done")
    /\ [][(sendPc = "loop" /\ sendPc' # "done") => Len(sendT') < Len(sendT)]_vars

\* send has returned after cutting a text of more than twice the length
\* that fits one PRIVMSG into two pieces
C39_Witness ==
    /\ sendPc = "done"
    /\ Len(sendText) > 2 * FitLen(sendTarget)
    /\ Len(outbox) = 2
    /\ outbox[1].Args[2] \o outbox[2].Args[2] = sendText


(***************************************************************************)
(* More properties of the framer.                                          *)
(***************************************************************************)
\* s starts with a line of payload bytes alone (no NUL, no line feed)
\* that CR LF follows directly
PlainHead(s) ==
    /\ TerminatedHead(s)
    /\ \A i \in 1..(FirstCR(s) - 1) : s[i] # "\n"

\* the length of the payload of the plain line s starts with
PlainLen(s) == FirstCR(s) - 1

\* C32: for a line of L >= 511 payload bytes, none of them NUL, CR or LF,
\* followed by CR LF, the MsgTooLong error of readMsgData carries the first
\* 509 payload bytes as Msg and L - 509 as NTrunc (the count junk returns
\* plus one), so that len(Msg) + NTrunc = L.
C32_TruncationCount ==
    (Called /\ PlainHead(LastInput) /\ PlainLen(LastInput) >= 511) =>
        /\ fres.err = "MsgTooLong"
        /\ fres.frame.Msg = SubSeq(LastInput, 1, 509)
        /\ fres.frame.NTrunc = PlainLen(LastInput) - 509
        /\ fres.frame.NTrunc = junk(LastInput, 511).n + 1
        /\ Len(fres.frame.Msg) + fres.frame.NTrunc = PlainLen(LastInput)

\* readMsgData has refused a line of 512 payload bytes that differ from
\* position to position
C32_Witness ==
    /\ Called /\ PlainHead(LastInput) /\ PlainLen(LastInput) = 512
    /\ LastInput[1] # LastInput[2]
    /\ fres.err = "MsgTooLong" /\ fres.frame.NTrunc = 3
    /\ Len(fres.frame.Msg) = 509


(***************************************************************************)
(* More properties of the session.                                         *)
(***************************************************************************)
\* the commands register acts on
RegisterCmds == FailureNumerics \cup {RPL_WELCOME, PING}

\* C33: while register waits for the welcome reply, a message whose
\* command is neither RPL_WELCOME nor PING nor one of the eight failure
\* numerics changes nothing: register stays in its loop, c.Server stays
\* empty, no error is set, and nothing is sent on c.Out or written.
C33_OtherMessageIgnored ==
    [][(RegisterReceives /\ rmsg.Cmd \notin RegisterCmds)
          => /\ cpc' = "regRange"
             /\ Server' = Server /\ Server = <<>>
             /\ regErr' = regErr /\ regErr = NoRegErr
             /\ cmsg' = cmsg
             /\ wmsg' = wmsg /\ wpc' = wpc
             /\ wire' = wire]_vars

\* register has received a NOTICE and is still waiting for the welcome
\* reply
C33_Witness ==
    /\ cpc = "regRange" /\ rpc = "read"
    /\ rmsg.Cmd = <<"N", "O", "T", "I", "C", "E">>
    /\ readsLeft < MaxReads
    /\ Server = <<>> /\ regErr = NoRegErr


\* handleConnection receives an error from c.Errors in its select loop
LoopReceivesErr == cpc = "select" /\ mpc = "fwd" /\ mpc' = "select"

\* C34: in the select loop of handleConnection an error received from
\* c.Errors ends the loop only when it is neither MsgTooLong nor io.EOF:
\* after one of these two the loop goes on with c.Out open, after any other
\* error handleConnection returns and closes c.Out.
C34_OnlyOtherErrorsEndLoop ==
    /\ [][LoopReceivesErr =>
             IF merr.kind \in {"MsgTooLong", "EOF"}
             THEN cpc' = "select" /\ ~chClosed'["out"]
             ELSE cpc' = "closeOut"]_vars
    /\ [](/\ cpc \in {"select", "closeOut"} => ~chClosed["out"]
          /\ cpc \in {"drain", "done"} => chClosed["out"]
          /\ Quiescent => cpc # "closeOut")

\* handleConnection has received a MsgTooLong and an io.EOF and is still
\* in its loop, with c.Out open
C34_Witness ==
    /\ cpc = "select" /\ ~chClosed["out"]
    /\ \E i \in 1..Len(delivered) : delivered[i].kind = "MsgTooLong"
    /\ \E i \in 1..Len(delivered) : delivered[i].kind = "EOF"


\* C35: every line readMsgData returns without error is non-empty, at
\* most 510 bytes long and holds no NUL, carriage return or line feed,
\* whatever the bytes of the stream.
C35_ReturnedLineClean ==
    (Called /\ fres.err = "nil") =>
        /\ fres.frame.data # <<>>
        /\ Len(fres.frame.data) <= 510
        /\ \A i \in 1..Len(fres.frame.data) : fres.frame.data[i] \notin {NUL, "\r", "\n"}

\* readMsgData has returned a line of 510 bytes from a stream that held a
\* line feed within that line
C35_Witness ==
    /\ Called /\ fres.err = "nil"
    /\ Len(fres.frame.data) = 510
    /\ LastInput[2] = "\n"


(***************************************************************************)
(* More properties of the codec.                                           *)
(***************************************************************************)
\* RawString has been applied to the message ParseMsg returned for a
\* non-empty line of at most 510 bytes that does not end in a line feed
Resent ==
    /\ cout.op = "Reserialize"
    /\ cin.line # <<>> /\ Len(cin.line) <= 510
    /\ cin.line[Len(cin.line)] # "\n"

\* C36: ParseMsg keeps its input unchanged as Raw, so for every non-empty
\* line of at most 510 bytes that does not end in a line feed RawString of
\* the parsed message returns the line itself: a received message that is
\* sent again is written as the line it was parsed from.
C36_ParsedLineResent ==
    /\ cout.op \in {"ParseMsg", "Reserialize"} /\ ~cout.parsed.panic
          => cout.parsed.msg.Raw = cin.line
    /\ Resent => /\ cout.raw.err = "nil"
                 /\ cout.raw.str = cin.line

\* RawString has returned the line "JOIN #test54321 :foo bar" for the
\* message parsed from it
C36_Witness ==
    /\ Resent /\ cin.line = ScenarioTrailing
    /\ cout.parsed.msg.Args = << <<"#", "t", "e", "s", "t", "5", "4", "3", "2", "1">>,
                                <<"f", "o", "o", " ", "b", "a", "r">> >>
    /\ cout.raw.str = ScenarioTrailing


\* C37: no channel of the session is closed twice and no loop sends on a
\* channel it has closed: readMsgs closes its error channel and c.In,
\* writeMsgs its error channel and muxErrors c.Errors, each once, at a point
\* where the channel is open and after which the loop sends on it no more.
C37_ClosedOnceAfterLastSend ==
    /\ rpc \in {"read", "sendErr", "sendMsg", "closeErrs"} => ~chClosed["rerrs"]
    /\ rpc \in {"read", "sendErr", "sendMsg", "closeErrs", "closeMs"} => ~chClosed["in"]
    /\ rpc \in {"closeMs", "closeConn", "done"} => chClosed["rerrs"]
    /\ rpc \in {"closeConn", "done"} => chClosed["in"]
    /\ wpc \in {"recv", "got", "sendErr", "closeErrs"} => ~chClosed["werrs"]
    /\ wpc \in {"closeConn", "drain", "done"} => chClosed["werrs"]
    /\ mpc \in {"select", "fwd"} => ~chClosed["errs"]
    /\ mpc = "done" <=> chClosed["errs"]
    /\ left \in 0..2 /\ (left = 0 <=> mpc = "done")

\* the three loops have returned and each of the four channels they close
\* is closed
C37_Witness ==
    /\ rpc = "done" /\ wpc = "done" /\ mpc = "done"
    /\ chClosed["rerrs"] /\ chClosed["in"] /\ chClosed["werrs"] /\ chClosed["errs"]
    /\ Len(delivered) >= 2


\* register has returned the error of a failure numeric
FailedByReply == Failed /\ regErr.kind = "reply"

\* C38: a failure numeric makes register return its error and nothing
\* else: dial hands back the client with the connection and the channels
\* as they were, the three loops go on, and the caller closes nothing
\* afterwards; when no loop has met an error of its own, the connection is
\* open, no channel is closed and the loops are in their loops.
C38_FailureLeavesSessionUp ==
    /\ [][(RegisterReceives /\ rmsg.Cmd \in FailureNumerics)
            => /\ cpc' = "failed"
               /\ connOpen' = connOpen /\ closeCalls' = closeCalls
               /\ chClosed' = chClosed
               /\ wpc' = wpc /\ mpc' = mpc /\ rpc' = "read"]_vars
    /\ [][FailedByReply => (FailedByReply' /\ chClosed'["out"] = chClosed["out"])]_vars
    /\ [](FailedByReply => ~chClosed["out"])
    /\ []((FailedByReply /\ reported = <<>>)
            => /\ connOpen
               /\ \A ch \in Channels : ~chClosed[ch]
               /\ rpc \in {"read", "sendMsg"}
               /\ wpc \in {"recv", "got"}
               /\ mpc = "select")

\* register has just returned the error of ERR_NICKNAMEINUSE: the
\* connection is open and the three loops are waiting
C38_Witness ==
    /\ FailedByReply /\ rmsg.Cmd = ERR_NICKNAMEINUSE
    /\ regErr.text = <<"i", "n", " ", "u", "s", "e">>
    /\ connOpen /\ closeCalls = [l \in {"r", "w"} |-> 0]
    /\ rpc = "read" /\ wpc = "recv" /\ mpc = "select"
    /\ \A ch \in Channels : ~chClosed[ch]


\* handleConnection has returned from its loop and is in its deferred
\* function, or has left it
InTeardown == cpc \in {"closeOut", "drain", "done"}

\* C40: the teardown of handleConnection does not hang: once its loop has
\* returned it closes c.Out and receives from c.Errors until c.Errors is
\* closed, and in no interleaving of the three loops does the session come
\* to rest with handleConnection still in its deferred function.
C40_TeardownEnds ==
    /\ cpc \in {"drain", "done"} => chClosed["out"]
    /\ cpc = "done" => chClosed["errs"]
    /\ (Quiescent /\ InTeardown) => cpc = "done"


\* handleConnection has returned after a write error while readMsgs holds
\* a message for c.In that nobody takes any more
C40_Witness ==
    /\ cpc = "done" /\ chClosed["out"] /\ chClosed["errs"]
    /\ rpc = "sendMsg" /\ ~chClosed["in"]
    /\ \E i \in 1..Len(delivered) : delivered[i].src = "w" /\ delivered[i].kind = "io"

=============================================================================
